---------------------------- MODULE Spec2Model ----------------------------
(***************************************************************************)
(* A model of ezproxy-config-lint's stanza processor (package linter):     *)
(* Linter.ProcessFile, Linter.ProcessLineAt and the per-directive checks.  *)
(*                                                                         *)
(* Strings.  A Go string is modelled by what strings.Split(s, " ") returns *)
(* for it: a non-empty sequence of tokens, each token a sequence of atoms  *)
(* (indivisible pieces of text).  "" is << <<>> >>, "Title  A" is          *)
(* <<W("Title"), <<>>, W("A")>>, "https://a.com/x" is the one token        *)
(* <<"https://", "a.com", "/x">>.  Everything the code does to a string    *)
(* (trimming, splitting, prefix and suffix tests, concatenation, URL       *)
(* parsing, the URL regular expressions) is computed on that form; white   *)
(* space other than the separating spaces appears as a token of its own.   *)
(*                                                                         *)
(* Diagnostics.  A diagnostic string is modelled by its code and the       *)
(* values formatted into it.  A method of the Linter is an operator from   *)
(* the Linter (and the line) to the Linter after the call and the          *)
(* diagnostics returned.                                                   *)
(*                                                                         *)
(* ProcessFile.  The active calls form a stack; one step of the model is   *)
(* one turn of the loop (a ProcessLineAt call), the entry of the recursive *)
(* call for an IncludeFile line, or a return.  What the environment        *)
(* decides (whether a file opens, whether the scanner fails, the result of *)
(* the OCLC page lookup, the iteration order of a Go map) is chosen in the *)
(* step.  log records every ProcessLineAt call of the run.                 *)
(***************************************************************************)
EXTENDS Integers, Sequences, FiniteSets, TLC

VARIABLES
    l,        \* the Linter: switches, IncludeFileDirectory, State, PreviousTitles, PreviousOrigins
    stack,    \* the active ProcessFile calls, innermost last
    log,      \* the ProcessLineAt calls made so far: arguments, branch taken, diagnostics
    m,        \* the diagnostics the last ProcessLineAt call returned
    result,   \* what the top-level ProcessFile call returned
    nread     \* physical lines read so far, over all files

vars == <<l, stack, log, m, result, nread>>

----------------------------------------------------------------------------
(* Bounds of the model. *)

\* Physical lines read in one run, over all files.
MaxLines == 4
\* Nesting depth of ProcessFile calls (1 = no included file is entered).
MaxDepth == 2

----------------------------------------------------------------------------
(* Strings. *)

W(a) == <<a>>
K(a) == <<W(a)>>
O(a) == <<W("Option"), W(a)>>
EmptyStr == << <<>> >>
Tab == <<"\t">>
Backslash == "\\"

IsSpaceToken(t) == t = <<>> \/ t = Tab

RECURSIVE TrimLeft(_)
TrimLeft(s) ==
    IF s = <<>> THEN <<>>
    ELSE IF IsSpaceToken(s[1]) THEN TrimLeft(Tail(s)) ELSE s

RECURSIVE TrimRight(_)
TrimRight(s) ==
    IF s = <<>> THEN <<>>
    ELSE IF IsSpaceToken(s[Len(s)]) THEN TrimRight(SubSeq(s, 1, Len(s) - 1)) ELSE s

\* strings.TrimSpace
TrimSpace(s) ==
    LET t == TrimRight(TrimLeft(s)) IN IF t = <<>> THEN EmptyStr ELSE t

\* a + b
StrCat(a, b) ==
    SubSeq(a, 1, Len(a) - 1) \o <<a[Len(a)] \o b[1]>> \o Tail(b)

\* strings.TrimPrefix(line, label) where label is whole tokens of line
TrimPrefix(line, label) ==
    IF Len(line) >= Len(label) /\ SubSeq(line, 1, Len(label)) = label
    THEN IF Len(line) = Len(label) THEN EmptyStr
         ELSE << <<>> >> \o SubSeq(line, Len(label) + 1, Len(line))
    ELSE line

TrimLabel(line, label) == TrimSpace(TrimPrefix(line, label))

TrailingSpaceOrTabCheck(line) ==
    \/ Len(line) > 1 /\ line[Len(line)] = <<>>
    \/ line[Len(line)] = Tab

HasPrefixHash(line) == line[1] # <<>> /\ line[1][1] = "#"

HasSuffixBackslash(line) ==
    LET t == line[Len(line)] IN t # <<>> /\ t[Len(t)] = Backslash

\* A variant that keeps the backslash.
TrimSuffixBackslashKept(line) == line

TrimSuffixBackslash(line) ==
    LET t == line[Len(line)]
    IN SubSeq(line, 1, Len(line) - 1) \o <<SubSeq(t, 1, Len(t) - 1)>>

\* The tokens of a line that are not white space.
Words(line) == SelectSeq(line, LAMBDA t : ~IsSpaceToken(t))

----------------------------------------------------------------------------
(* The directive table. *)

LabelPairs == {
    <<K("A"), "AutoLoginIP">>, <<K("AddUserHeader"), "AddUserHeader">>, <<K("AllowIP"), "AllowIP">>,
    <<K("AllowVars"), "AllowVars">>, <<K("AnonymousURL"), "AnonymousURL">>, <<K("Audit"), "Audit">>,
    <<K("AuditPurge"), "AuditPurge">>, <<K("AutoLoginIP"), "AutoLoginIP">>,
    <<K("AutoLoginIPBanner"), "AutoLoginIPBanner">>, <<K("BinaryTimeout"), "BinaryTimeout">>,
    <<K("Books24x7Site"), "Books24x7Site">>, <<K("ByteServe"), "ByteServe">>, <<K("CASServiceURL"), "CASServiceURL">>,
    <<K("ChargeSetLatency"), "ChargeSetLatency">>, <<K("Charset"), "Charset">>,
    <<K("ClientTimeout"), "ClientTimeout">>, <<K("ConnectWindow"), "ConnectWindow">>, <<K("Cookie"), "Cookie">>,
    <<K("CookieFilter"), "CookieFilter">>, <<K("D"), "Domain">>, <<K("DbVar"), "DbVar">>,
    <<K("DenyIfRequestHeader"), "DenyIfRequestHeader">>, <<K("Description"), "Description">>,
    <<K("DJ"), "DomainJavaScript">>, <<K("DNS"), "DNS">>, <<K("Domain"), "Domain">>,
    <<K("DomainJavaScript"), "DomainJavaScript">>, <<K("E"), "ExcludeIP">>, <<K("EBLSecret"), "EBLSecret">>,
    <<K("ebrarySite"), "EbrarySite">>, <<K("EncryptVar"), "EncryptVar">>, <<K("ExcludeIP"), "ExcludeIP">>,
    <<K("ExcludeIPBanner"), "ExcludeIPBanner">>, <<K("ExtraLoginCookie"), "ExtraLoginCookie">>, <<K("Find"), "Find">>,
    <<K("FirstPort"), "FirstPort">>, <<K("FormSelect"), "FormSelect">>, <<K("FormSubmit"), "FormSubmit">>,
    <<K("FormVariable"), "FormVariable">>, <<K("Gartner"), "Gartner">>, <<K("Group"), "Group">>, <<K("H"), "Host">>,
    <<K("HAName"), "HAName">>, <<K("HAPeer"), "HAPeer">>, <<K("HJ"), "HostJavaScript">>, <<K("Host"), "Host">>,
    <<K("HostJavaScript"), "HostJavaScript">>, <<K("HTTPHeader"), "HTTPHeader">>, <<K("HTTPMethod"), "HTTPMethod">>,
    <<K("I"), "IncludeIP">>, <<K("Identifier"), "Identifier">>, <<K("IncludeFile"), "IncludeFile">>,
    <<K("IncludeIP"), "IncludeIP">>, <<K("Interface"), "Interface">>,
    <<K("IntruderIPAttempts"), "IntruderIPAttempts">>, <<K("IntruderLog"), "IntruderLog">>,
    <<K("IntruderUserAttempts"), "IntruderUserAttempts">>, <<K("IntrusionAPI"), "IntrusionAPI">>,
    <<K("LBPeer"), "LBPeer">>, <<K("Location"), "Location">>, <<K("LogFile"), "LogFile">>,
    <<K("LogFilter"), "LogFilter">>, <<K("LogFormat"), "LogFormat">>, <<K("LoginCookieDomain"), "LoginCookieDomain">>,
    <<K("LoginCookieName"), "LoginCookieName">>, <<K("LoginMenu"), "LoginMenu">>, <<K("LoginPort"), "LoginPort">>,
    <<K("LoginPortSSL"), "LoginPortSSL">>, <<K("LogSPU"), "LogSPU">>,
    <<K("MaxConcurrentTransfers"), "MaxConcurrentTransfers">>, <<K("MaxLifetime"), "MaxLifetime">>,
    <<K("MaxSessions"), "MaxSessions">>, <<K("MaxVirtualHosts"), "MaxVirtualHosts">>,
    <<K("MC"), "MaxConcurrentTransfers">>, <<K("MessagesFile"), "MessagesFile">>, <<K("MetaFind"), "MetaFind">>,
    <<K("MimeFilter"), "MimeFilter">>, <<K("ML"), "MaxLifetime">>, <<K("MS"), "MaxSessions">>,
    <<K("MV"), "MaxVirtualHosts">>, <<K("Name"), "Name">>, <<K("NeverProxy"), "NeverProxy">>,
    <<O("AcceptX-Forwarded-For"), "OptionAcceptXForwardedFor">>, <<O("AllowSendGZip"), "OptionAllowSendGZip">>,
    <<O("AllowWebSubdirectories"), "OptionAllowWebSubdirectories">>, <<O("AnyDNSHostname"), "OptionAnyDNSHostname">>,
    <<O("BlockCountryChange"), "OptionBlockCountryChange">>, <<O("Cookie"), "OptionCookie">>,
    <<O("CookiePassThrough"), "OptionCookiePassThrough">>, <<O("CSRFToken"), "OptionCSRFToken">>,
    <<O("DisableSSL40bit"), "OptionDisableSSL40bit">>, <<O("DisableSSL56bit"), "OptionDisableSSL56bit">>,
    <<O("DisableSSLv2"), "OptionDisableSSLv2">>, <<O("DomainCookieOnly"), "OptionDomainCookieOnly">>,
    <<O("ebraryUnencodedTokens"), "OptionEbraryUnencodedTokens">>, <<O("ExcludeIPMenu"), "OptionExcludeIPMenu">>,
    <<O("ForceHTTPSAdmin"), "OptionForceHTTPSAdmin">>, <<O("ForceHTTPSLogin"), "OptionForceHTTPSLogin">>,
    <<O("ForceWildcardCertificate"), "OptionForceWildcardCertificate">>, <<O("HideEZproxy"), "OptionHideEZproxy">>,
    <<O("HttpsHyphens"), "OptionHttpsHyphens">>,
    <<<<W("Option"), W("I"), W("choose"), W("to"), W("use"), W("Domain"), W("lines"), W("that"), W("threaten"), W("the"), W("security"), W("of"), W("my"), W("network")>>, "OptionIChooseToUseDomainLinesThatThreatenTheSecurityOfMyNetwork">>,
    <<O("IgnoreWildcardCertificate"), "OptionIgnoreWildcardCertificate">>, <<O("IPv6"), "OptionIPv6">>,
    <<O("LoginReplaceGroups"), "OptionLoginReplaceGroups">>, <<O("LogReferer"), "OptionLogReferer">>,
    <<O("LogSAML"), "OptionLogSAML">>, <<O("LogSession"), "OptionLogSession">>,
    <<O("LogSPUEdit"), "OptionLogSPUEdit">>, <<O("LogUser"), "OptionLogUser">>,
    <<O("MenuByGroups"), "OptionMenuByGroups">>, <<O("MetaEZproxyRewriting"), "OptionMetaEZproxyRewriting">>,
    <<O("NoCookie"), "OptionNoCookie">>, <<O("NoHideEZproxy"), "OptionNoHideEZproxy">>,
    <<O("NoHttpsHyphens"), "OptionNoHttpsHyphens">>, <<O("NoMetaEZproxyRewriting"), "OptionNoMetaEZproxyRewriting">>,
    <<O("NoProxyFTP"), "OptionNoProxyFTP">>, <<O("NoUTF16"), "OptionNoUTF16">>,
    <<O("NoX-Forwarded-For"), "OptionNoXForwardedFor">>, <<O("ProxyByHostname"), "OptionProxyByHostname">>,
    <<O("ProxyFTP"), "OptionProxyFTP">>, <<O("RecordPeaks"), "OptionRecordPeaks">>,
    <<O("RedirectUnknown"), "OptionRedirectUnknown">>, <<O("ReferInHostname"), "OptionReferInHostname">>,
    <<O("RelaxedRADIUS"), "OptionRelaxedRADIUS">>, <<O("RequireAuthenticate"), "OptionRequireAuthenticate">>,
    <<O("SafariCookiePatch"), "OptionSafariCookiePatch">>, <<O("StatusUser"), "OptionStatusUser">>,
    <<O("TicketIgnoreExcludeIP"), "OptionTicketIgnoreExcludeIP">>,
    <<O("UnsafeRedirectUnknown"), "OptionUnsafeRedirectUnknown">>, <<O("UsernameCaretN"), "OptionUsernameCaretN">>,
    <<O("UTF16"), "OptionUTF16">>, <<O("X-Forwarded-For"), "OptionXForwardedFor">>,
    <<K("OverDriveSite"), "OverDriveSite">>, <<K("PDFRefresh"), "PDFRefresh">>,
    <<K("PDFRefreshPost"), "PDFRefreshPost">>, <<K("PDFRefreshPre"), "PDFRefreshPre">>,
    <<K("PHE"), "ProxyHostnameEdit">>, <<K("PidFile"), "PidFile">>, <<K("PIDFile"), "PidFile">>,
    <<K("Proxy"), "Proxy">>, <<K("ProxyHostnameEdit"), "ProxyHostnameEdit">>, <<K("ProxySSL"), "ProxySSL">>,
    <<K("RADIUSRetry"), "RADIUSRetry">>, <<K("RedirectSafe"), "RedirectSafe">>, <<K("Referer"), "Referer">>,
    <<K("RejectIP"), "RejectIP">>, <<K("RemoteIPHeader"), "RemoteIPHeader">>,
    <<K("RemoteIPInternalProxy"), "RemoteIPInternalProxy">>, <<K("RemoteIPTrustedProxy"), "RemoteIPTrustedProxy">>,
    <<K("RemoteTimeout"), "RemoteTimeout">>, <<K("Replace"), "Replace">>, <<K("RunAs"), "RunAs">>,
    <<K("ShibbolethDisable"), "ShibbolethDisable">>, <<K("ShibbolethMetadata"), "ShibbolethMetadata">>,
    <<K("SkipPort"), "SkipPort">>, <<K("SPUEdit"), "SPUEdit">>, <<K("SPUEditVar"), "SPUEditVar">>,
    <<K("SQLiteTempDir"), "SQLiteTempDir">>, <<K("SSLCipherSuite"), "SSLCipherSuite">>,
    <<K("SSLHonorCipherOrder"), "SSLHonorCipherOrder">>, <<K("SSLOpenSSLConfCmd"), "SSLOpenSSLConfCmd">>,
    <<K("SSOUsername"), "SSOUsername">>, <<K("T"), "Title">>, <<K("Title"), "Title">>, <<K("TokenKey"), "TokenKey">>,
    <<K("TokenSignatureKey"), "TokenSignatureKey">>, <<K("U"), "URL">>, <<K("UMask"), "UMask">>, <<K("URL"), "URL">>,
    <<<<W("URLAppendEncoded"), <<>>>>, "URLAppendEncoded">>, <<K("URLRedirect"), "URLRedirect">>,
    <<K("URLRedirectAppend"), "URLRedirectAppend">>, <<K("URLRedirectAppendEncoded"), "URLRedirectAppendEncoded">>,
    <<K("UsageLimit"), "UsageLimit">>, <<K("Validate"), "Validate">>, <<K("XDebug"), "XDebug">>
    }

\* The labels of DbVar0 to DbVar9, which ProcessLineAt's callees name as directives:
\* each is spelled as the directive is.
DbVarLabels ==
    {<<K(d), d>> : d \in {"DbVar0", "DbVar1", "DbVar2", "DbVar3", "DbVar4",
                          "DbVar5", "DbVar6", "DbVar7", "DbVar8", "DbVar9"}}

LabelToDirective ==
    [k \in {p[1] : p \in LabelPairs \cup DbVarLabels} |->
        (CHOOSE p \in LabelPairs \cup DbVarLabels : p[1] = k)[2]]

\* strings.ToLower on the atoms the table and the inputs use.
LowerPairs == {
    <<"A", "a">>, <<"AddUserHeader", "adduserheader">>, <<"AllowIP", "allowip">>, <<"AllowVars", "allowvars">>,
    <<"AnonymousURL", "anonymousurl">>, <<"Audit", "audit">>, <<"AuditPurge", "auditpurge">>,
    <<"AutoLoginIP", "autologinip">>, <<"AutoLoginIPBanner", "autologinipbanner">>,
    <<"BinaryTimeout", "binarytimeout">>, <<"Books24x7Site", "books24x7site">>, <<"ByteServe", "byteserve">>,
    <<"CASServiceURL", "casserviceurl">>, <<"ChargeSetLatency", "chargesetlatency">>, <<"Charset", "charset">>,
    <<"ClientTimeout", "clienttimeout">>, <<"ConnectWindow", "connectwindow">>, <<"Cookie", "cookie">>,
    <<"CookieFilter", "cookiefilter">>, <<"D", "d">>, <<"DbVar", "dbvar">>,
    <<"DbVar0", "dbvar0">>, <<"DbVar1", "dbvar1">>, <<"DbVar2", "dbvar2">>, <<"DbVar3", "dbvar3">>,
    <<"DbVar4", "dbvar4">>, <<"DbVar5", "dbvar5">>, <<"DbVar6", "dbvar6">>, <<"DbVar7", "dbvar7">>,
    <<"DbVar8", "dbvar8">>, <<"DbVar9", "dbvar9">>,
    <<"DenyIfRequestHeader", "denyifrequestheader">>, <<"Description", "description">>, <<"DJ", "dj">>,
    <<"DNS", "dns">>, <<"Domain", "domain">>, <<"DomainJavaScript", "domainjavascript">>, <<"E", "e">>,
    <<"EBLSecret", "eblsecret">>, <<"ebrarySite", "ebrarysite">>, <<"EncryptVar", "encryptvar">>,
    <<"ExcludeIP", "excludeip">>, <<"ExcludeIPBanner", "excludeipbanner">>,
    <<"ExtraLoginCookie", "extralogincookie">>, <<"Find", "find">>, <<"FirstPort", "firstport">>,
    <<"FormSelect", "formselect">>, <<"FormSubmit", "formsubmit">>, <<"FormVariable", "formvariable">>,
    <<"Gartner", "gartner">>, <<"Group", "group">>, <<"H", "h">>, <<"HAName", "haname">>, <<"HAPeer", "hapeer">>,
    <<"HJ", "hj">>, <<"Host", "host">>, <<"HostJavaScript", "hostjavascript">>, <<"HTTPHeader", "httpheader">>,
    <<"HTTPMethod", "httpmethod">>, <<"I", "i">>, <<"Identifier", "identifier">>, <<"IncludeFile", "includefile">>,
    <<"IncludeIP", "includeip">>, <<"Interface", "interface">>, <<"IntruderIPAttempts", "intruderipattempts">>,
    <<"IntruderLog", "intruderlog">>, <<"IntruderUserAttempts", "intruderuserattempts">>,
    <<"IntrusionAPI", "intrusionapi">>, <<"LBPeer", "lbpeer">>, <<"Location", "location">>, <<"LogFile", "logfile">>,
    <<"LogFilter", "logfilter">>, <<"LogFormat", "logformat">>, <<"LoginCookieDomain", "logincookiedomain">>,
    <<"LoginCookieName", "logincookiename">>, <<"LoginMenu", "loginmenu">>, <<"LoginPort", "loginport">>,
    <<"LoginPortSSL", "loginportssl">>, <<"LogSPU", "logspu">>,
    <<"MaxConcurrentTransfers", "maxconcurrenttransfers">>, <<"MaxLifetime", "maxlifetime">>,
    <<"MaxSessions", "maxsessions">>, <<"MaxVirtualHosts", "maxvirtualhosts">>, <<"MC", "mc">>,
    <<"MessagesFile", "messagesfile">>, <<"MetaFind", "metafind">>, <<"MimeFilter", "mimefilter">>, <<"ML", "ml">>,
    <<"MS", "ms">>, <<"MV", "mv">>, <<"Name", "name">>, <<"NeverProxy", "neverproxy">>, <<"Option", "option">>,
    <<"AcceptX-Forwarded-For", "acceptx-forwarded-for">>, <<"AllowSendGZip", "allowsendgzip">>,
    <<"AllowWebSubdirectories", "allowwebsubdirectories">>, <<"AnyDNSHostname", "anydnshostname">>,
    <<"BlockCountryChange", "blockcountrychange">>, <<"CookiePassThrough", "cookiepassthrough">>,
    <<"CSRFToken", "csrftoken">>, <<"DisableSSL40bit", "disablessl40bit">>, <<"DisableSSL56bit", "disablessl56bit">>,
    <<"DisableSSLv2", "disablesslv2">>, <<"DomainCookieOnly", "domaincookieonly">>,
    <<"ebraryUnencodedTokens", "ebraryunencodedtokens">>, <<"ExcludeIPMenu", "excludeipmenu">>,
    <<"ForceHTTPSAdmin", "forcehttpsadmin">>, <<"ForceHTTPSLogin", "forcehttpslogin">>,
    <<"ForceWildcardCertificate", "forcewildcardcertificate">>, <<"HideEZproxy", "hideezproxy">>,
    <<"HttpsHyphens", "httpshyphens">>, <<"IgnoreWildcardCertificate", "ignorewildcardcertificate">>,
    <<"IPv6", "ipv6">>, <<"LoginReplaceGroups", "loginreplacegroups">>, <<"LogReferer", "logreferer">>,
    <<"LogSAML", "logsaml">>, <<"LogSession", "logsession">>, <<"LogSPUEdit", "logspuedit">>,
    <<"LogUser", "loguser">>, <<"MenuByGroups", "menubygroups">>, <<"MetaEZproxyRewriting", "metaezproxyrewriting">>,
    <<"NoCookie", "nocookie">>, <<"NoHideEZproxy", "nohideezproxy">>, <<"NoHttpsHyphens", "nohttpshyphens">>,
    <<"NoMetaEZproxyRewriting", "nometaezproxyrewriting">>, <<"NoProxyFTP", "noproxyftp">>, <<"NoUTF16", "noutf16">>,
    <<"NoX-Forwarded-For", "nox-forwarded-for">>, <<"ProxyByHostname", "proxybyhostname">>,
    <<"ProxyFTP", "proxyftp">>, <<"RecordPeaks", "recordpeaks">>, <<"RedirectUnknown", "redirectunknown">>,
    <<"ReferInHostname", "referinhostname">>, <<"RelaxedRADIUS", "relaxedradius">>,
    <<"RequireAuthenticate", "requireauthenticate">>, <<"SafariCookiePatch", "safaricookiepatch">>,
    <<"StatusUser", "statususer">>, <<"TicketIgnoreExcludeIP", "ticketignoreexcludeip">>,
    <<"UnsafeRedirectUnknown", "unsaferedirectunknown">>, <<"UsernameCaretN", "usernamecaretn">>,
    <<"UTF16", "utf16">>, <<"X-Forwarded-For", "x-forwarded-for">>, <<"OverDriveSite", "overdrivesite">>,
    <<"PDFRefresh", "pdfrefresh">>, <<"PDFRefreshPost", "pdfrefreshpost">>, <<"PDFRefreshPre", "pdfrefreshpre">>,
    <<"PHE", "phe">>, <<"PidFile", "pidfile">>, <<"PIDFile", "pidfile">>, <<"Proxy", "proxy">>,
    <<"ProxyHostnameEdit", "proxyhostnameedit">>, <<"ProxySSL", "proxyssl">>, <<"RADIUSRetry", "radiusretry">>,
    <<"RedirectSafe", "redirectsafe">>, <<"Referer", "referer">>, <<"RejectIP", "rejectip">>,
    <<"RemoteIPHeader", "remoteipheader">>, <<"RemoteIPInternalProxy", "remoteipinternalproxy">>,
    <<"RemoteIPTrustedProxy", "remoteiptrustedproxy">>, <<"RemoteTimeout", "remotetimeout">>,
    <<"Replace", "replace">>, <<"RunAs", "runas">>, <<"ShibbolethDisable", "shibbolethdisable">>,
    <<"ShibbolethMetadata", "shibbolethmetadata">>, <<"SkipPort", "skipport">>, <<"SPUEdit", "spuedit">>,
    <<"SPUEditVar", "spueditvar">>, <<"SQLiteTempDir", "sqlitetempdir">>, <<"SSLCipherSuite", "sslciphersuite">>,
    <<"SSLHonorCipherOrder", "sslhonorcipherorder">>, <<"SSLOpenSSLConfCmd", "sslopensslconfcmd">>,
    <<"SSOUsername", "ssousername">>, <<"T", "t">>, <<"Title", "title">>, <<"TokenKey", "tokenkey">>,
    <<"TokenSignatureKey", "tokensignaturekey">>, <<"U", "u">>, <<"UMask", "umask">>, <<"URL", "url">>,
    <<"URLAppendEncoded", "urlappendencoded">>, <<"URLRedirect", "urlredirect">>,
    <<"URLRedirectAppend", "urlredirectappend">>, <<"URLRedirectAppendEncoded", "urlredirectappendencoded">>,
    <<"UsageLimit", "usagelimit">>, <<"Validate", "validate">>, <<"XDebug", "xdebug">>, <<"TITLE", "title">>,
    <<"OPTION", "option">>, <<"COOKIE", "cookie">>, <<"ANONYMOUSURL", "anonymousurl">>, <<"HOST", "host">>,
    <<"FIND", "find">>,
    <<"-Refresh", "-refresh">>, <<"-Redirect", "-redirect">>, <<"-Append", "-append">>,
    <<"-Encoded", "-encoded">>, <<"-Form=", "-form=">>, <<"-RewriteHost", "-rewritehost">>
    }

LowerOf == [a \in {p[1] : p \in LowerPairs} |-> (CHOOSE p \in LowerPairs : p[1] = a)[2]]

ToLowerAtom(a) == IF a \in DOMAIN LowerOf THEN LowerOf[a] ELSE a

ToLower(s) == [i \in DOMAIN s |-> [j \in DOMAIN s[i] |-> ToLowerAtom(s[i][j])]]

LowercaseLabelToDirective ==
    [k \in {ToLower(p[1]) : p \in LabelPairs \cup DbVarLabels} |->
        (CHOOSE p \in LabelPairs \cup DbVarLabels : ToLower(p[1]) = k)[2]]

OptionPairs ==
    [d \in {"OptionDomainCookieOnly", "OptionNoCookie", "OptionCookiePassThrough",
            "OptionHideEZproxy", "OptionNoHttpsHyphens", "OptionMetaEZproxyRewriting",
            "OptionProxyFTP", "OptionUTF16", "OptionXForwardedFor"} |->
        CASE d = "OptionDomainCookieOnly" -> "OptionCookie"
          [] d = "OptionNoCookie" -> "OptionCookie"
          [] d = "OptionCookiePassThrough" -> "OptionCookie"
          [] d = "OptionHideEZproxy" -> "OptionNoHideEZproxy"
          [] d = "OptionNoHttpsHyphens" -> "OptionHttpsHyphens"
          [] d = "OptionMetaEZproxyRewriting" -> "OptionNoMetaEZproxyRewriting"
          [] d = "OptionProxyFTP" -> "OptionNoProxyFTP"
          [] d = "OptionUTF16" -> "OptionNoUTF16"
          [] d = "OptionXForwardedFor" -> "OptionNoXForwardedFor"]

OpenerOptions == DOMAIN OptionPairs

CloserOptions == {OptionPairs[d] : d \in DOMAIN OptionPairs}

DbVars == {"DbVar", "DbVar0", "DbVar1", "DbVar2", "DbVar3", "DbVar4",
           "DbVar5", "DbVar6", "DbVar7", "DbVar8", "DbVar9"}

----------------------------------------------------------------------------
(* Maps, locations, diagnostics. *)

EmptyMap == <<>>

Put(mp, k, v) == [x \in DOMAIN mp \cup {k} |-> IF x = k THEN v ELSE mp[x]]

\* maps.Copy(dst, src)
MapsCopy(dst, src) ==
    [x \in DOMAIN dst \cup DOMAIN src |-> IF x \in DOMAIN src THEN src[x] ELSE dst[x]]

\* fmt.Sprintf("%v:%v", filePath, lineNum)
At(filePath, lineNum) == [file |-> filePath, line |-> lineNum]

NoAt == [file |-> <<>>, line |-> 0]

\* One diagnostic string: its code and the values formatted into it.
Diag(code, title, dir, dir2, at) ==
    [code |-> code, title |-> title, dir |-> dir, dir2 |-> dir2, at |-> at]

D0(code) == Diag(code, EmptyStr, "", "", NoAt)

DPrev(code, prev) == Diag(code, EmptyStr, prev, "", NoAt)

DAt(code, at) == Diag(code, EmptyStr, "", "", at)

R(ll, mm) == [l |-> ll, m |-> mm]

ZeroState ==
    [AddUserHeaderNeedsClosing |-> FALSE,
     AnonymousURLNeedsClosing |-> FALSE,
     OpenOptions |-> <<>>,
     InMultiline |-> FALSE,
     LastLineEmpty |-> FALSE,
     OCLCTitle |-> EmptyStr,
     Label |-> EmptyStr,
     Current |-> "Undefined",
     IsSeparator |-> FALSE,
     Previous |-> "Undefined",
     PreviousMultilineSegments |-> EmptyStr,
     Source |-> EmptyStr,
     ProxyHostnameEditPatterns |-> {},
     Title |-> EmptyStr,
     URL |-> EmptyStr,
     URLOrigin |-> EmptyStr,
     URLAt |-> NoAt,
     StanzaOrigins |-> EmptyMap]

----------------------------------------------------------------------------
(* net/url and the URL regular expressions. *)

SchemeAtoms == {"http://", "https://", "ftp://"}

PathAtoms == {"/", "/x", "/y"}

MalformedHosts == {"[boo"}

\* url.Parse: the scheme (with its "://"), the host, whether the path holds a "/".
ParseURL(s) ==
    LET t == s[1]
        atoms == UNION {{s[i][j] : j \in DOMAIN s[i]} : i \in DOMAIN s}
    IN IF t # <<>> /\ t[1] \in SchemeAtoms
       THEN LET host == IF Len(t) >= 2 /\ t[2] \notin PathAtoms THEN t[2] ELSE ""
                inAuthority == \A j \in DOMAIN t : t[j] \notin PathAtoms
            IN [err |-> host \in MalformedHosts \/ (Len(s) > 1 /\ inAuthority),
                Scheme |-> t[1], Host |-> host,
                PathHasSlash |-> atoms \cap PathAtoms # {}]
       ELSE [err |-> FALSE, Scheme |-> "", Host |-> "",
             PathHasSlash |-> atoms \cap PathAtoms # {}]

\* fmt.Sprintf("%v://%v", parsedURL.Scheme, parsedURL.Host)
OriginOf(p) == <<<<p.Scheme, p.Host>>>>

URLQualifierForms ==
    {<<>>, <<W("-refresh")>>, <<W("-redirect")>>, <<W("-append"), W("-encoded")>>,
     <<W("-refresh"), W("-redirect")>>, <<W("-refresh"), W("-append"), W("-encoded")>>,
     <<W("-redirect"), W("-append"), W("-encoded")>>,
     <<W("-refresh"), W("-redirect"), W("-append"), W("-encoded")>>}

IsURLLabel(t) == ToLower(<<t>>) \in {K("u"), K("url")}

\* URLV1Regex
MatchV1(w) == Len(w) = 2 /\ IsURLLabel(w[1])

\* URLV2Regex
MatchV2(w) ==
    /\ Len(w) >= 3
    /\ IsURLLabel(w[1])
    /\ ToLower(SubSeq(w, 2, Len(w) - 2)) \in URLQualifierForms

\* URLV3Regex
MatchV3(w) ==
    /\ Len(w) \in {4, 5}
    /\ IsURLLabel(w[1])
    /\ Len(w[2]) = 2 /\ ToLowerAtom(w[2][1]) = "-form="
    /\ Len(w) = 5 => ToLower(<<w[3]>>) = K("-rewritehost")

\* A variant that knows the first two forms only.
FindURLFromLineNoForm(line) ==
    LET w == Words(line)
    IN IF MatchV1(w) \/ MatchV2(w) THEN <<w[Len(w)]>> ELSE EmptyStr

FindURLFromLine(line) ==
    LET w == Words(line)
    IN IF MatchV1(w) \/ MatchV2(w) \/ MatchV3(w) THEN <<w[Len(w)]>> ELSE EmptyStr

----------------------------------------------------------------------------
(* The per-directive checks.  Each takes the Linter and returns the        *)
(* Linter after the call and the diagnostics the call returns.             *)

OptionOpenerAllowed ==
    {"Undefined", "Group", "HTTPMethod", "AddUserHeader", "AnonymousURL", "OptionCookie"}
        \cup DbVars \cup OpenerOptions

\* A variant that opens the option only when the line is in order.
ProcessOptionOpenerInOrder(ll, line) ==
    LET S == ll.State
    IN IF S.Previous \notin OptionOpenerAllowed
       THEN R(ll, <<Diag("L1005", EmptyStr, S.Current, S.Previous, NoAt)>>)
       ELSE R([ll EXCEPT !.State.OpenOptions = Append(@, S.Current)], <<>>)

ProcessOptionOpener(ll, line) ==
    LET S == ll.State
        m1 == IF S.Previous \notin OptionOpenerAllowed
              THEN <<Diag("L1005", EmptyStr, S.Current, S.Previous, NoAt)>> ELSE <<>>
    IN R([ll EXCEPT !.State.OpenOptions = Append(@, S.Current)], m1)

OptionCloserAllowed ==
    {"DbVar", "URL", "Host", "HostJavaScript", "Domain", "DomainJavaScript", "Replace",
     "AddUserHeader", "AnonymousURL", "NeverProxy"} \cup CloserOptions

\* A variant that removes the first entry the closer is paired with only.
ProcessOptionCloserFirst(ll, line) ==
    LET S == ll.State
        m1 == IF S.Previous \notin OptionCloserAllowed
              THEN <<Diag("L1006", EmptyStr, S.Current, S.Previous, NoAt)>> ELSE <<>>
        hits == {i \in DOMAIN S.OpenOptions : OptionPairs[S.OpenOptions[i]] = S.Current}
        first == CHOOSE i \in hits : \A j \in hits : i <= j
    IN R([ll EXCEPT !.State.OpenOptions =
                        IF hits = {} THEN @
                        ELSE SubSeq(@, 1, first - 1) \o SubSeq(@, first + 1, Len(@))], m1)

ProcessOptionCloser(ll, line) ==
    LET S == ll.State
        m1 == IF S.Previous \notin OptionCloserAllowed
              THEN <<Diag("L1006", EmptyStr, S.Current, S.Previous, NoAt)>> ELSE <<>>
    IN R([ll EXCEPT !.State.OpenOptions =
                        SelectSeq(@, LAMBDA d : OptionPairs[d] # S.Current)], m1)

ProxyHostnameEditAllowed ==
    {"Undefined", "Group", "HTTPMethod", "Cookie", "AddUserHeader", "AnonymousURL",
     "OptionCookie", "ProxyHostnameEdit"} \cup DbVars \cup OpenerOptions

\* A variant whose pattern lacks the leading period.
SubdomainMatchSuffix(pattern, find) ==
    /\ Len(find) >= Len(pattern)
    /\ SubSeq(find, Len(find) - Len(pattern) + 1, Len(find)) = pattern

\* regexp.MustCompile(`[.]` + regexp.QuoteMeta(pattern) + `$`).MatchString(find)
SubdomainMatch(pattern, find) ==
    /\ Len(find) > Len(pattern)
    /\ SubSeq(find, Len(find) - Len(pattern) + 1, Len(find)) = pattern
    /\ find[Len(find) - Len(pattern)] = "."

\* A variant that hyphenates the find token with its $ still on.
ProcessProxyHostnameEditWhole(ll, line, order) ==
    LET S == ll.State
        m1 == IF S.Previous \notin ProxyHostnameEditAllowed
              THEN <<DPrev("L1008", S.Previous)>> ELSE <<>>
        findReplacePair == TrimLabel(line, S.Label)
    IN IF Len(findReplacePair) # 2 THEN R(ll, m1 \o <<D0("L3001")>>)
       ELSE IF ~ll.AdditionalPHEChecks THEN R(ll, m1)
       ELSE LET f0 == findReplacePair[1]
                found == f0 # <<>> /\ f0[Len(f0)] = "$"
                find == IF found THEN SubSeq(f0, 1, Len(f0) - 1) ELSE f0
                m2 == IF ~found THEN <<D0("L3002")>> ELSE <<>>
                replaced == [j \in DOMAIN f0 |-> IF f0[j] = "." THEN "-" ELSE f0[j]]
                m3 == IF replaced # findReplacePair[2] THEN <<D0("L3003")>> ELSE <<>>
                hits == SelectSeq(order, LAMBDA p : SubdomainMatch(p, find))
                m4 == [i \in DOMAIN hits |-> Diag("L1009", <<hits[i]>>, "", "", NoAt)]
            IN R([ll EXCEPT !.State.ProxyHostnameEditPatterns = @ \cup {find}],
                 m1 \o m2 \o m3 \o m4)

\* order: the order in which the range over the pattern map visits its keys.
ProcessProxyHostnameEdit(ll, line, order) ==
    LET S == ll.State
        m1 == IF S.Previous \notin ProxyHostnameEditAllowed
              THEN <<DPrev("L1008", S.Previous)>> ELSE <<>>
        findReplacePair == TrimLabel(line, S.Label)
    IN IF Len(findReplacePair) # 2 THEN R(ll, m1 \o <<D0("L3001")>>)
       ELSE IF ~ll.AdditionalPHEChecks THEN R(ll, m1)
       ELSE LET f0 == findReplacePair[1]
                found == f0 # <<>> /\ f0[Len(f0)] = "$"
                find == IF found THEN SubSeq(f0, 1, Len(f0) - 1) ELSE f0
                m2 == IF ~found THEN <<D0("L3002")>> ELSE <<>>
                replaced == [j \in DOMAIN find |-> IF find[j] = "." THEN "-" ELSE find[j]]
                m3 == IF replaced # findReplacePair[2] THEN <<D0("L3003")>> ELSE <<>>
                hits == SelectSeq(order, LAMBDA p : SubdomainMatch(p, find))
                m4 == [i \in DOMAIN hits |-> Diag("L1009", <<hits[i]>>, "", "", NoAt)]
            IN R([ll EXCEPT !.State.ProxyHostnameEditPatterns = @ \cup {find}],
                 m1 \o m2 \o m3 \o m4)

AddUserHeaderCloseAllowed ==
    {"URL", "Host", "HostJavaScript", "Domain", "DomainJavaScript", "Replace",
     "AnonymousURL", "NeverProxy"} \cup CloserOptions

AddUserHeaderOpenAllowed ==
    {"Undefined", "Group", "HTTPMethod", "Cookie", "AddUserHeader", "AnonymousURL",
     "OptionCookie", "ProxyHostnameEdit"} \cup DbVars \cup OpenerOptions

ProcessAddUserHeader(ll, line) ==
    LET S == ll.State
    IN IF TrimLabel(line, S.Label) = EmptyStr
       THEN R([ll EXCEPT !.State.AddUserHeaderNeedsClosing = FALSE],
              IF S.Previous \notin AddUserHeaderCloseAllowed
              THEN <<DPrev("L1011", S.Previous)>> ELSE <<>>)
       ELSE R([ll EXCEPT !.State.AddUserHeaderNeedsClosing = TRUE],
              IF S.Previous \notin AddUserHeaderOpenAllowed
              THEN <<DPrev("L1012", S.Previous)>> ELSE <<>>)

AnonymousURLCloseAllowed ==
    {"URL", "Host", "HostJavaScript", "Domain", "DomainJavaScript", "Replace",
     "AddUserHeader", "NeverProxy"} \cup CloserOptions

AnonymousURLOpenAllowed ==
    {"Undefined", "Group", "HTTPMethod", "Cookie", "AddUserHeader", "AnonymousURL",
     "ProxyHostnameEdit"} \cup DbVars \cup OpenerOptions

ProcessAnonymousURL(ll, line) ==
    LET S == ll.State
    IN IF TrimLabel(line, S.Label) = K("-*")
       THEN R([ll EXCEPT !.State.AnonymousURLNeedsClosing = FALSE],
              IF S.Previous \notin AnonymousURLCloseAllowed
              THEN <<DPrev("L1003", S.Previous)>> ELSE <<>>)
       ELSE R([ll EXCEPT !.State.AnonymousURLNeedsClosing = TRUE],
              IF S.Previous \notin AnonymousURLOpenAllowed
              THEN <<DPrev("L1004", S.Previous)>> ELSE <<>>)

\* A variant without AnonymousURL.
TitleAllowedNoAnonymousURL ==
    {"Undefined", "Group", "HTTPMethod", "AddUserHeader", "ProxyHostnameEdit",
     "Referer", "Cookie", "OptionEbraryUnencodedTokens", "OptionCookie"}
        \cup DbVars \cup OpenerOptions

TitleAllowed ==
    {"Undefined", "Group", "HTTPMethod", "AddUserHeader", "AnonymousURL", "ProxyHostnameEdit",
     "Referer", "Cookie", "OptionEbraryUnencodedTokens", "OptionCookie"}
        \cup DbVars \cup OpenerOptions

\* if l.State.Title != "" { "Duplicate Title directive in stanza" }
DuplicateTitle(S) == S.Title # EmptyStr

\* A variant that keeps the last location of a title instead of the first.
RecordTitleLatest(PreviousTitles, title, at) == Put(PreviousTitles, title, at)

\* The PreviousTitles map after a Title line with this value at this location.
RecordTitle(PreviousTitles, title, at) ==
    IF title \in DOMAIN PreviousTitles THEN PreviousTitles ELSE Put(PreviousTitles, title, at)

\* strings.TrimPrefix(title, "-Hide ")
TrimHide(title) ==
    IF Len(title) > 1 /\ title[1] = W("-Hide") THEN Tail(title) ELSE title

ProcessTitle(ll, line, at) ==
    LET S == ll.State
        m1 == IF S.Previous \notin TitleAllowed
              THEN <<DPrev("L1001", S.Previous)>> ELSE <<>>
        m2 == IF ~S.AnonymousURLNeedsClosing /\ S.Previous = "AnonymousURL"
              THEN <<DPrev("L1001", S.Previous)>> ELSE <<>>
        m3 == IF DuplicateTitle(S) THEN <<D0("L2001")>> ELSE <<>>
        title == TrimLabel(line, S.Label)
        m4 == IF title \in DOMAIN ll.PreviousTitles
              THEN <<DAt("L2004", ll.PreviousTitles[title])>> ELSE <<>>
        m5 == IF /\ S.OCLCTitle # EmptyStr
                 /\ title # S.OCLCTitle
                 /\ TrimHide(title) # S.OCLCTitle
              THEN <<D0("L9002")>> ELSE <<>>
    IN R([ll EXCEPT !.State.Title = title,
                    !.PreviousTitles = RecordTitle(@, title, at)],
         m1 \o m2 \o m3 \o m4 \o m5)

ProcessDescription(ll, line, at) ==
    LET S == ll.State
    IN R([ll EXCEPT !.State.IsSeparator = TRUE],
         IF S.Previous \notin {"Title", "Description"}
         THEN <<DPrev("L1013", S.Previous)>> ELSE <<>>)

\* A variant that records the origin in PreviousOrigins at once.
ProcessHostOriginAtOnce(ll, at, origin) ==
    LET S == ll.State
        m1 == IF origin \in DOMAIN ll.PreviousOrigins
              THEN <<DAt("L2002", ll.PreviousOrigins[origin])>> ELSE <<>>
        originSeen == origin \in DOMAIN S.StanzaOrigins
        m2 == IF ll.Origins /\ originSeen
              THEN <<DAt("L2005", S.StanzaOrigins[origin])>> ELSE <<>>
    IN R(IF originSeen THEN ll
         ELSE [ll EXCEPT !.State.StanzaOrigins = Put(@, origin, at),
                         !.PreviousOrigins = Put(@, origin, at)],
         m1 \o m2)

\* The origin checks of a Host or HostJavaScript line.
ProcessHostOrigin(ll, at, origin) ==
    LET S == ll.State
        m1 == IF origin \in DOMAIN ll.PreviousOrigins
              THEN <<DAt("L2002", ll.PreviousOrigins[origin])>> ELSE <<>>
        originSeen == origin \in DOMAIN S.StanzaOrigins
        m2 == IF ll.Origins /\ originSeen
              THEN <<DAt("L2005", S.StanzaOrigins[origin])>> ELSE <<>>
    IN R(IF originSeen THEN ll ELSE [ll EXCEPT !.State.StanzaOrigins = Put(@, origin, at)],
         m1 \o m2)

ProcessHostParsed(ll, at, trimmed, p1) ==
    IF p1.err THEN R(ll, <<D0("L3005")>>)
    ELSE IF p1.Host # "" THEN ProcessHostOrigin(ll, at, OriginOf(p1))
    ELSE IF ParseURL(StrCat(K("http://"), trimmed)).err THEN R(ll, <<D0("L3005")>>)
    ELSE ProcessHostOrigin(ll, at, OriginOf(ParseURL(StrCat(K("http://"), trimmed))))

ProcessHostAndHostJavaScript(ll, line, at) ==
    ProcessHostParsed(ll, at, TrimLabel(line, ll.State.Label),
                      ParseURL(TrimLabel(line, ll.State.Label)))

ProcessDomainAndDomainJavaScript(ll, line) ==
    LET p == ParseURL(TrimLabel(line, ll.State.Label))
    IN IF p.err THEN R(ll, <<D0("L3005")>>)
       ELSE R(ll, IF p.Scheme # "" \/ p.PathHasSlash THEN <<D0("L3004")>> ELSE <<>>)

\* A variant without Description.
URLAllowedNoDescription ==
    {"AllowVars", "EBLSecret", "EbrarySite", "EncryptVar", "HTTPHeader", "MimeFilter", "Title"}

URLAllowed ==
    {"AllowVars", "Description", "EBLSecret", "EbrarySite", "EncryptVar", "HTTPHeader",
     "MimeFilter", "Title"}

\* if l.State.URL != "" { "Duplicate URL directive in stanza" }
DuplicateURL(S) == S.URL # EmptyStr

\* A variant that keeps the origin of a URL that the HTTPS check reports to itself.
ProcessURLParsedSecureOnly(l1, at, mm, p) ==
    IF p.err THEN R(l1, mm \o <<D0("L3005")>>)
    ELSE IF p.Host = "" THEN R(l1, mm \o <<D0("L3006")>>)
    ELSE IF l1.HTTPS /\ p.Scheme # "https://" THEN R(l1, mm \o <<D0("L3007")>>)
    ELSE R([l1 EXCEPT !.State.URLOrigin = OriginOf(p), !.State.URLAt = at],
           mm \o (IF OriginOf(p) \in DOMAIN l1.PreviousOrigins
                  THEN <<DAt("L2002", l1.PreviousOrigins[OriginOf(p)])>> ELSE <<>>))

\* The checks of ProcessURL on the parsed URL.
ProcessURLParsed(l1, at, mm, p) ==
    IF p.err THEN R(l1, mm \o <<D0("L3005")>>)
    ELSE IF p.Host = "" THEN R(l1, mm \o <<D0("L3006")>>)
    ELSE R([l1 EXCEPT !.State.URLOrigin = OriginOf(p), !.State.URLAt = at],
           mm \o (IF l1.HTTPS /\ p.Scheme # "https://" THEN <<D0("L3007")>> ELSE <<>>)
              \o (IF OriginOf(p) \in DOMAIN l1.PreviousOrigins
                  THEN <<DAt("L2002", l1.PreviousOrigins[OriginOf(p)])>> ELSE <<>>))

\* The checks of ProcessURL on the URL found in the line.
ProcessURLFound(ll, at, mm, urlFromLine) ==
    ProcessURLParsed([ll EXCEPT !.State.URL = urlFromLine], at,
                     mm \o (IF urlFromLine = EmptyStr THEN <<D0("L3009")>> ELSE <<>>),
                     ParseURL(urlFromLine))

ProcessURL(ll, line, at) ==
    LET S == ll.State
        m1 == IF S.Previous \notin URLAllowed THEN <<DPrev("L1002", S.Previous)>> ELSE <<>>
        m2 == IF S.Title = EmptyStr THEN <<D0("L1010")>> ELSE <<>>
        m3 == IF DuplicateURL(S) THEN <<D0("L2003")>> ELSE <<>>
    IN ProcessURLFound(ll, at, m1 \o m2 \o m3, FindURLFromLine(line))

----------------------------------------------------------------------------
(* ProcessLineAt. *)

\* lookup: what the GET of the page and the scan of its <pre> block gave.
processSourceLine(sourceLine, lookup) ==
    LET source == IF Len(sourceLine) >= 4 THEN <<sourceLine[4]>> ELSE EmptyStr
        p == ParseURL(source)
    IN IF Len(sourceLine) # 4 \/ p.err \/ p.Scheme # "https://" \/ p.Host # "help.oclc.org"
          \/ lookup.err
       THEN [err |-> TRUE, source |-> EmptyStr, oclcTitle |-> EmptyStr]
       ELSE [err |-> FALSE, source |-> source, oclcTitle |-> lookup.title]

\* A variant that does not look at the separator flag.
MissingURLNoSeparator(S) == S.Title # EmptyStr /\ S.URL = EmptyStr

\* if l.State.Title != "" && l.State.URL == "" && !l.State.IsSeparator
MissingURL(S) == S.Title # EmptyStr /\ S.URL = EmptyStr /\ ~S.IsSeparator

\* A variant that reports the open options last to first.
UnclosedOptionsReversed(S) ==
    [i \in DOMAIN S.OpenOptions |->
        Diag("L4002", S.Title, S.OpenOptions[Len(S.OpenOptions) + 1 - i],
             OptionPairs[S.OpenOptions[Len(S.OpenOptions) + 1 - i]], NoAt)]

\* for _, option := range l.State.OpenOptions { ... (L4002) }
UnclosedOptions(S) ==
    [i \in DOMAIN S.OpenOptions |->
        Diag("L4002", S.Title, S.OpenOptions[i], OptionPairs[S.OpenOptions[i]], NoAt)]

\* PreviousOrigins after the stanza's URL origin and its H/HJ origins are added.
FlushOrigins(PreviousOrigins, S) ==
    MapsCopy(IF S.URLOrigin # EmptyStr
             THEN Put(PreviousOrigins, S.URLOrigin, S.URLAt) ELSE PreviousOrigins,
             S.StanzaOrigins)

Out(ll, mm, kind, directive, value) ==
    [l |-> ll, m |-> mm, kind |-> kind, directive |-> directive, value |-> value]

\* A variant that clears the fields one by one and leaves the continuation fields out.
EndOfStanzaFieldwise(ll, m0) ==
    LET S == ll.State
    IN Out([ll EXCEPT !.PreviousOrigins = FlushOrigins(@, S),
                      !.State = [ZeroState EXCEPT
                                    !.LastLineEmpty = TRUE,
                                    !.InMultiline = S.InMultiline,
                                    !.PreviousMultilineSegments = S.PreviousMultilineSegments]],
           m0 \o (IF MissingURL(S) THEN <<Diag("L4003", S.Title, "", "", NoAt)>> ELSE <<>>)
              \o (IF S.AddUserHeaderNeedsClosing
                  THEN <<Diag("L4005", S.Title, "", "", NoAt)>> ELSE <<>>)
              \o (IF S.AnonymousURLNeedsClosing
                  THEN <<Diag("L4001", S.Title, "", "", NoAt)>> ELSE <<>>)
              \o UnclosedOptions(S), "boundary", "Undefined", EmptyStr)

EndOfStanza(ll, m0) ==
    LET S == ll.State
        m1 == IF MissingURL(S) THEN <<Diag("L4003", S.Title, "", "", NoAt)>> ELSE <<>>
        m2 == IF S.AddUserHeaderNeedsClosing
              THEN <<Diag("L4005", S.Title, "", "", NoAt)>> ELSE <<>>
        m3 == IF S.AnonymousURLNeedsClosing
              THEN <<Diag("L4001", S.Title, "", "", NoAt)>> ELSE <<>>
    IN Out([ll EXCEPT !.PreviousOrigins = FlushOrigins(@, S),
                      !.State = [ZeroState EXCEPT !.LastLineEmpty = TRUE]],
           m0 \o m1 \o m2 \o m3 \o UnclosedOptions(S), "boundary", "Undefined", EmptyStr)

IsSourceLine(line) ==
    Len(line) >= 4 /\ SubSeq(line, 1, 3) = <<W("#"), W("Source"), W("-")>>

Comment(ll, line, m0, lookup) ==
    IF ll.Source /\ IsSourceLine(line)
    THEN LET r == processSourceLine(line, lookup)
         IN IF r.err THEN Out(ll, m0 \o <<D0("L9003")>>, "comment", "Undefined", EmptyStr)
            ELSE Out([ll EXCEPT !.State.Source = r.source, !.State.OCLCTitle = r.oclcTitle],
                     m0, "comment", "Undefined", EmptyStr)
    ELSE Out(ll, m0, "comment", "Undefined", EmptyStr)

\* if l.State.Previous == Find && directive != Replace
FindNotReplaced(S, directive) == S.Previous = "Find" /\ directive # "Replace"

\* A variant that asks for no open option at all.
DefensiveOptionCookieNoneOpen(S, directive) ==
    /\ directive = "OptionCookie"
    /\ S.Title = EmptyStr
    /\ S.OpenOptions = <<>>

\* The defensive Option Cookie: no Title yet, no open option that Option Cookie closes.
DefensiveOptionCookie(S, directive) ==
    /\ directive = "OptionCookie"
    /\ S.Title = EmptyStr
    /\ \A i \in DOMAIN S.OpenOptions : OptionPairs[S.OpenOptions[i]] # "OptionCookie"

Dispatch(ll, directive, line, at, order) ==
    CASE directive = "ProxyHostnameEdit" -> ProcessProxyHostnameEdit(ll, line, order)
      [] directive = "AddUserHeader" -> ProcessAddUserHeader(ll, line)
      [] directive = "AnonymousURL" -> ProcessAnonymousURL(ll, line)
      [] directive = "Title" -> ProcessTitle(ll, line, at)
      [] directive = "Description" -> ProcessDescription(ll, line, at)
      [] directive = "URL" -> ProcessURL(ll, line, at)
      [] directive \in {"Host", "HostJavaScript"} -> ProcessHostAndHostJavaScript(ll, line, at)
      [] directive \in {"Domain", "DomainJavaScript"} ->
            ProcessDomainAndDomainJavaScript(ll, line)
      [] OTHER -> R(ll, <<>>)

\* The opener or closer check of an option pair directive.
ProcessOptionPair(l1, directive, line) ==
    IF directive \in OpenerOptions THEN ProcessOptionOpener(l1, line)
    ELSE IF directive \in CloserOptions THEN ProcessOptionCloser(l1, line)
    ELSE R(l1, <<>>)

\* A variant that leaves the previous directive as it was.
FinishKeepsPrevious(r2, directive, value, mm) ==
    Out(r2.l, mm \o r2.m, "directive", directive, value)

\* l.State.Previous = directive; return m
Finish(r2, directive, value, mm) ==
    Out([r2.l EXCEPT !.State.Previous = directive], mm \o r2.m, "directive", directive, value)

\* The switch on the directive, after the option pair check r1.
ProcessOther(r1, directive, line, at, mm, order) ==
    Finish(Dispatch(r1.l, directive, line, at, order), directive,
           TrimLabel(line, r1.l.State.Label), mm \o r1.m)

\* The checks of a classified line, from the defensive Option Cookie on.
Validate(l1, directive, line, at, mm, order) ==
    IF DefensiveOptionCookie(l1.State, directive)
    THEN Out([l1 EXCEPT !.State.Previous = "OptionCookie"], mm, "directive", directive,
             TrimLabel(line, l1.State.Label))
    ELSE ProcessOther(ProcessOptionPair(l1, directive, line), directive, line, at, mm, order)

\* A variant that returns as soon as it has reported a Find without Replace.
KnownShortCircuit(ll, line, at, m0, order, label, exact, directive) ==
    IF FindNotReplaced(ll.State, directive)
    THEN Out([ll EXCEPT !.State.Current = directive, !.State.Label = label],
             m0 \o <<D0("L4004")>>, "directive", directive, TrimLabel(line, label))
    ELSE Validate([ll EXCEPT !.State.Current = directive, !.State.Label = label],
                  directive, line, at, m0, order)

\* A label found in one of the two tables: the case and the Find/Replace checks.
Known(ll, line, at, m0, order, label, exact, directive) ==
    Validate([ll EXCEPT !.State.Current = directive, !.State.Label = label],
             directive, line, at,
             m0 \o (IF ~exact /\ ll.DirectiveCase
                    THEN <<Diag("L5001", label, directive, "", NoAt)>> ELSE <<>>)
                \o (IF FindNotReplaced(ll.State, directive) THEN <<D0("L4004")>> ELSE <<>>),
             order)

\* A variant that forgets the previous directive.
UnknownForgets(ll, m0, label) ==
    Out([ll EXCEPT !.State.Previous = "Undefined"],
        m0 \o <<Diag("L9001", label, "", "", NoAt)>>, "unknown", "Undefined", EmptyStr)

\* m = append(m, "Unknown directive %q (L9001)"); return m
Unknown(ll, m0, label) ==
    Out(ll, m0 \o <<Diag("L9001", label, "", "", NoAt)>>, "unknown", "Undefined", EmptyStr)

\* A variant that does not tell a label of the lower-case table from an exact one.
LookupNoCase(ll, line, at, m0, order, label) ==
    IF ToLower(label) \in DOMAIN LowercaseLabelToDirective
    THEN Known(ll, line, at, m0, order, label, TRUE,
               LowercaseLabelToDirective[ToLower(label)])
    ELSE Unknown(ll, m0, label)

\* Find the Directive which matches this label.
Lookup(ll, line, at, m0, order, label) ==
    IF label \in DOMAIN LabelToDirective
    THEN Known(ll, line, at, m0, order, label, TRUE, LabelToDirective[label])
    ELSE IF ToLower(label) \in DOMAIN LowercaseLabelToDirective
    THEN Known(ll, line, at, m0, order, label, FALSE,
               LowercaseLabelToDirective[ToLower(label)])
    ELSE Unknown(ll, m0, label)

\* Split the line by spaces to find the label; Option directives have two parts.
Classify(ll, line, at, m0, order) ==
    IF <<line[1]>> = K("Option")
    THEN IF Len(line) # 2
         THEN Out(ll, m0 \o <<D0("L3008")>>, "malformed", "Undefined", EmptyStr)
         ELSE Lookup(ll, line, at, m0, order, line)
    ELSE Lookup(ll, line, at, m0, order, <<line[1]>>)

\* A variant that looks for the trailing white space after the line is trimmed.
ProcessLineAtTrimsFirst(ll, rawLine, at, oracle) ==
    LET m0 == IF ll.Whitespace /\ TrailingSpaceOrTabCheck(TrimSpace(rawLine))
              THEN <<D0("L5002")>> ELSE <<>>
        line == TrimSpace(rawLine)
    IN IF line = EmptyStr \/ line = K("#") THEN EndOfStanza(ll, m0)
       ELSE
       LET l1 == [ll EXCEPT !.State.LastLineEmpty = FALSE]
       IN IF HasPrefixHash(line) THEN Comment(l1, line, m0, oracle.lookup)
          ELSE IF HasSuffixBackslash(line)
          THEN Out([l1 EXCEPT !.State.PreviousMultilineSegments =
                                  StrCat(@, TrimSuffixBackslash(line)),
                              !.State.InMultiline = TRUE],
                   m0, "continuation", "Undefined", EmptyStr)
          ELSE
          Classify([l1 EXCEPT !.State.PreviousMultilineSegments =
                                  IF l1.State.InMultiline THEN EmptyStr ELSE @,
                              !.State.IsSeparator = FALSE],
                   IF l1.State.InMultiline
                   THEN StrCat(l1.State.PreviousMultilineSegments, line) ELSE line,
                   at, m0, oracle.order)

\* oracle: the outcome of the OCLC lookup and the iteration order of the pattern map.
ProcessLineAt(ll, rawLine, at, oracle) ==
    LET m0 == IF ll.Whitespace /\ TrailingSpaceOrTabCheck(rawLine)
              THEN <<D0("L5002")>> ELSE <<>>
        line == TrimSpace(rawLine)
    IN IF line = EmptyStr \/ line = K("#") THEN EndOfStanza(ll, m0)
       ELSE
       LET l1 == [ll EXCEPT !.State.LastLineEmpty = FALSE]
       IN IF HasPrefixHash(line) THEN Comment(l1, line, m0, oracle.lookup)
          ELSE IF HasSuffixBackslash(line)
          THEN Out([l1 EXCEPT !.State.PreviousMultilineSegments =
                                  StrCat(@, TrimSuffixBackslash(line)),
                              !.State.InMultiline = TRUE],
                   m0, "continuation", "Undefined", EmptyStr)
          ELSE
          Classify([l1 EXCEPT !.State.PreviousMultilineSegments =
                                  IF l1.State.InMultiline THEN EmptyStr ELSE @,
                              !.State.IsSeparator = FALSE],
                   IF l1.State.InMultiline
                   THEN StrCat(l1.State.PreviousMultilineSegments, line) ELSE line,
                   at, m0, oracle.order)

----------------------------------------------------------------------------
(* ProcessFile. *)

\* filepath.IsAbs, filepath.Dir, filepath.Join on a path held as its components.
IsAbs(p) == p # <<>> /\ p[1] = "/"

Dir(p) == IF Len(p) <= 1 THEN <<".">> ELSE SubSeq(p, 1, Len(p) - 1)

Join(dir, p) == IF dir = <<".">> THEN p ELSE dir \o p

\* The file named on the command line.
TopFile == <<"conf", "config.txt">>

NewFrame(filePath) ==
    [filePath |-> filePath, lineNum |-> 0, warningCount |-> 0,
     done |-> FALSE, scanErr |-> FALSE,
     pending |-> FALSE, includeFilePath |-> <<>>]

\* The record kept of one ProcessLineAt call: the line and location passed, the depth
\* of the ProcessFile call that made it, the branch taken and what was returned.
Entry(r, rawLine, at) ==
    [line |-> rawLine, at |-> at, depth |-> Len(stack), kind |-> r.kind,
     directive |-> r.directive, value |-> r.value, m |-> r.m]

Top == stack[Len(stack)]

\* The value ProcessFile returns with an error: the count of the outermost call only.
Failed(extra) ==
    [status |-> "error",
     warningCount |-> IF stack = <<>> THEN 0
                      ELSE stack[1].warningCount + (IF Len(stack) = 1 THEN extra ELSE 0)]

\* A variant that makes the two maps anew for every file.
EnterFileNewMaps(filePath, outer) ==
    /\ l' = [l EXCEPT !.IncludeFileDirectory = IF @ = <<>> THEN Dir(filePath) ELSE @,
                      !.State = ZeroState,
                      !.PreviousTitles = EmptyMap,
                      !.PreviousOrigins = EmptyMap]
    /\ stack' = Append(outer, NewFrame(filePath))
    /\ UNCHANGED result

\* os.Open succeeded: the entry of ProcessFile up to its loop.
EnterFile(filePath, outer) ==
    /\ l' = [l EXCEPT !.IncludeFileDirectory = IF @ = <<>> THEN Dir(filePath) ELSE @,
                      !.State = ZeroState]
    /\ stack' = Append(outer, NewFrame(filePath))
    /\ UNCHANGED result

Start ==
    /\ result.status = "idle"
    /\ stack = <<>>
    /\ \E opened \in BOOLEAN :
          IF opened THEN EnterFile(TopFile, stack)
          ELSE /\ result' = Failed(0)
               /\ UNCHANGED <<l, stack>>
    /\ UNCHANGED <<log, m, nread>>

Orders(S) ==
    {s \in [1..Cardinality(S) -> S] : {s[i] : i \in DOMAIN s} = S}

Lookups ==
    {[err |-> TRUE, title |-> EmptyStr], [err |-> FALSE, title |-> EmptyStr],
     [err |-> FALSE, title |-> <<W("A")>>]}

Oracles(ll, rawLine) ==
    {[lookup |-> k, order |-> o] :
        k \in IF ll.Source /\ IsSourceLine(TrimSpace(rawLine)) THEN Lookups
              ELSE {[err |-> TRUE, title |-> EmptyStr]},
        o \in Orders(ll.State.ProxyHostnameEditPatterns)}

\* A variant that resolves a relative path against the directory of the file read.
AfterLineOwnDirectory(rawLine, at, r) ==
    LET f == Top
        follow == r.l.FollowIncludeFile /\ r.l.State.Previous = "IncludeFile"
        path == IF Len(rawLine) >= 2 THEN rawLine[2] ELSE <<>>
        f1 == [f EXCEPT !.lineNum = @ + 1,
                        !.warningCount = @ + Len(r.m),
                        !.pending = follow,
                        !.includeFilePath =
                            IF ~follow THEN <<>>
                            ELSE IF IsAbs(path) THEN path
                            ELSE Join(Dir(f.filePath), path)]
    IN /\ l' = r.l
       /\ m' = r.m
       /\ log' = Append(log, Entry(r, rawLine, at))
       /\ nread' = nread + 1
       /\ IF follow /\ Len(rawLine) < 2
          THEN /\ result' = Failed(Len(r.m))
               /\ stack' = <<>>
          ELSE /\ stack' = [stack EXCEPT ![Len(stack)] = f1]
               /\ UNCHANGED result

\* The rest of a turn of the loop after ProcessLineAt returned r for a scanned line.
AfterLine(rawLine, at, r) ==
    LET f == Top
        follow == r.l.FollowIncludeFile /\ r.l.State.Previous = "IncludeFile"
        path == IF Len(rawLine) >= 2 THEN rawLine[2] ELSE <<>>
        f1 == [f EXCEPT !.lineNum = @ + 1,
                        !.warningCount = @ + Len(r.m),
                        !.pending = follow,
                        !.includeFilePath =
                            IF ~follow THEN <<>>
                            ELSE IF IsAbs(path) THEN path
                            ELSE Join(r.l.IncludeFileDirectory, path)]
    IN /\ l' = r.l
       /\ m' = r.m
       /\ log' = Append(log, Entry(r, rawLine, at))
       /\ nread' = nread + 1
       /\ IF follow /\ Len(rawLine) < 2
          THEN /\ result' = Failed(Len(r.m))
               /\ stack' = <<>>
          ELSE /\ stack' = [stack EXCEPT ![Len(stack)] = f1]
               /\ UNCHANGED result

\* One turn of the loop with a line from the scanner.
ReadLine(Lines) ==
    /\ stack # <<>>
    /\ ~Top.done /\ ~Top.pending
    /\ nread < MaxLines
    /\ \E rawLine \in Lines : \E oracle \in Oracles(l, rawLine) :
          AfterLine(rawLine, At(Top.filePath, Top.lineNum + 1),
                    ProcessLineAt(l, rawLine, At(Top.filePath, Top.lineNum + 1), oracle))

\* The last turn of the loop after ProcessLineAt returned r for the added empty line.
AfterLastLine(at, r, scanErr) ==
    /\ l' = r.l
    /\ m' = r.m
    /\ log' = Append(log, Entry(r, EmptyStr, at))
    /\ stack' = [stack EXCEPT ![Len(stack)] =
                    [Top EXCEPT !.done = TRUE, !.scanErr = scanErr,
                                !.warningCount = @ + Len(r.m)]]

NoOracle == [lookup |-> [err |-> TRUE, title |-> EmptyStr], order |-> <<>>]

\* The scanner has no more lines: one more call with an empty line unless the last
\* line was empty, then the loop ends.
ScanEnd ==
    /\ stack # <<>>
    /\ ~Top.done /\ ~Top.pending
    /\ \E scanErr \in BOOLEAN :
          IF l.State.LastLineEmpty
          THEN /\ stack' = [stack EXCEPT ![Len(stack)].done = TRUE,
                                         ![Len(stack)].scanErr = scanErr]
               /\ UNCHANGED <<l, m, log>>
          ELSE AfterLastLine(At(Top.filePath, Top.lineNum),
                             ProcessLineAt(l, EmptyStr, At(Top.filePath, Top.lineNum), NoOracle),
                             scanErr)
    /\ UNCHANGED <<result, nread>>

\* A variant that goes on with the enclosing file when the included file does not open.
EnterIncludeOrSkip ==
    /\ stack # <<>>
    /\ Top.pending
    /\ \E opened \in (IF Len(stack) < MaxDepth THEN BOOLEAN ELSE {FALSE}) :
          IF opened
          THEN EnterFile(Top.includeFilePath, [stack EXCEPT ![Len(stack)].pending = FALSE])
          ELSE /\ stack' = [stack EXCEPT ![Len(stack)].pending = FALSE]
               /\ UNCHANGED <<l, result>>
    /\ UNCHANGED <<log, m, nread>>

\* The recursive call for an IncludeFile line.  A file nested MaxDepth deep finds
\* no file to open.
EnterInclude ==
    /\ stack # <<>>
    /\ Top.pending
    /\ \E opened \in (IF Len(stack) < MaxDepth THEN BOOLEAN ELSE {FALSE}) :
          IF opened
          THEN EnterFile(Top.includeFilePath, [stack EXCEPT ![Len(stack)].pending = FALSE])
          ELSE /\ result' = Failed(0)
               /\ stack' = <<>>
               /\ UNCHANGED l
    /\ UNCHANGED <<log, m, nread>>

\* A variant that drops the count of an included file.
ReturnOwnCount ==
    /\ stack # <<>>
    /\ Top.done
    /\ IF Top.scanErr
       THEN /\ result' = Failed(0)
            /\ stack' = <<>>
       ELSE IF Len(stack) = 1
       THEN /\ result' = [status |-> "ok", warningCount |-> Top.warningCount]
            /\ stack' = <<>>
       ELSE /\ stack' = SubSeq(stack, 1, Len(stack) - 1)
            /\ UNCHANGED result
    /\ UNCHANGED <<l, log, m, nread>>

\* The return of a ProcessFile call whose loop has ended.
Return ==
    /\ stack # <<>>
    /\ Top.done
    /\ IF Top.scanErr
       THEN /\ result' = Failed(0)
            /\ stack' = <<>>
       ELSE IF Len(stack) = 1
       THEN /\ result' = [status |-> "ok", warningCount |-> Top.warningCount]
            /\ stack' = <<>>
       ELSE /\ stack' = [SubSeq(stack, 1, Len(stack) - 1) EXCEPT
                            ![Len(stack) - 1].warningCount = @ + Top.warningCount]
            /\ UNCHANGED result
    /\ UNCHANGED <<l, log, m, nread>>

NewLinter(follow, strict) ==
    [AdditionalPHEChecks |-> strict, DirectiveCase |-> strict, HTTPS |-> strict,
     Origins |-> strict, Source |-> strict, Whitespace |-> strict,
     FollowIncludeFile |-> follow, IncludeFileDirectory |-> <<>>,
     State |-> ZeroState, PreviousTitles |-> EmptyMap, PreviousOrigins |-> EmptyMap]

Init ==
    /\ \E follow \in BOOLEAN, strict \in BOOLEAN : l = NewLinter(follow, strict)
    /\ stack = <<>>
    /\ log = <<>>
    /\ m = <<>>
    /\ result = [status |-> "idle", warningCount |-> 0]
    /\ nread = 0

\* A Linter that follows IncludeFile lines, with or without IncludeFileDirectory set
\* by the caller.
InitDirectory ==
    /\ \E dir \in {<<>>, <<"inc">>}, strict \in BOOLEAN :
          l = [NewLinter(TRUE, strict) EXCEPT !.IncludeFileDirectory = dir]
    /\ stack = <<>>
    /\ log = <<>>
    /\ m = <<>>
    /\ result = [status |-> "idle", warningCount |-> 0]
    /\ nread = 0

Next(Lines) ==
    \/ Start
    \/ ReadLine(Lines)
    \/ ScanEnd
    \/ EnterInclude
    \/ Return

----------------------------------------------------------------------------
(* The lines the files are made of, and one specification per set of lines. *)

Blank == EmptyStr
Hash == K("#")
CommentC == <<W("#"), W("c")>>
IncludeB == <<W("IncludeFile"), W("b.txt")>>
TitleA == <<W("Title"), W("A")>>
TitleEmpty == K("Title")
DescriptionD == <<W("Description"), W("d")>>
DescriptionCont == <<W("Description"), <<"d", Backslash>>>>
URLA == <<W("URL"), <<"https://", "a.com">>>>
URLB == <<W("URL"), <<"https://", "b.com">>>>
URLBad == K("URL")
HostA == <<W("H"), <<"https://", "a.com">>>>
AnonOpen == <<W("AnonymousURL"), W("+x")>>
AnonClose == <<W("AnonymousURL"), W("-*")>>
FindX == <<W("Find"), W("x")>>
ReplaceY == <<W("Replace"), W("y")>>
UnknownFoo == K("Foo")
NeverProxyN == <<W("NeverProxy"), W("n.com")>>

\* Option pairs inside stanzas and across an included file.
LinesOptions ==
    {Blank, IncludeB, TitleA,
     O("DomainCookieOnly"), O("HideEZproxy"), O("Cookie"), O("NoHideEZproxy"),
     <<W("DbVar0"), W("x")>>, O("NoCookie")}

SpecOptions == Init /\ [][Next(LinesOptions)]_vars

\* Title, Description and URL lines of every shape.
LinesTitles ==
    {Blank, Hash, IncludeB, TitleA, TitleEmpty, DescriptionD, URLA, URLBad}

SpecTitles == Init /\ [][Next(LinesTitles)]_vars

\* Title, Description and URL lines among comments: separator stanzas.
LinesSeparator ==
    {Blank, Hash, CommentC, IncludeB, TitleA, DescriptionD, DescriptionCont, URLA, URLBad}

SpecSeparator == Init /\ [][Next(LinesSeparator)]_vars

\* The AnonymousURL fence and the AddUserHeader fence.
LinesAnonymous ==
    {Blank, Hash, IncludeB, TitleA, URLA, AnonOpen, AnonClose, O("Cookie"),
     <<W("AddUserHeader"), W("x")>>, K("AddUserHeader")}

SpecAnonymous == Init /\ [][Next(LinesAnonymous)]_vars

\* Find and Replace among other lines.
LinesFind ==
    {Blank, CommentC, IncludeB, UnknownFoo, FindX, ReplaceY, TitleA, O("NoCookie"), O("Cookie")}

SpecFind == Init /\ [][Next(LinesFind)]_vars

\* Origins of URL and Host lines.
LinesOrigins ==
    {Blank, IncludeB, TitleA, URLA, URLB, HostA}

SpecOrigins == Init /\ [][Next(LinesOrigins)]_vars


\* Labels in the wrong case, unknown labels and trailing white space.
LinesCase ==
    {<< <<>>, <<>> >>, IncludeB,
     <<W("TITLE"), W("A"), <<>>>>, <<W("TITLE"), <<Backslash>>>>,
     <<W("url"), <<"https://", "a.com">>>>, <<W("FIND"), W("x")>>,
     O("COOKIE"), <<W("Foo"), Tab>>}

SpecCase == Init /\ [][Next(LinesCase)]_vars

\* Lines that set the fields of the stanza state, and the stanza boundaries.
LinesState ==
    {<<Tab>>, Hash, IncludeB, TitleA, URLA, HostA, O("NoCookie"), AnonOpen,
     <<W("AddUserHeader"), W("x")>>, DescriptionCont}

SpecState == Init /\ [][Next(LinesState)]_vars

\* ProxyHostnameEdit lines: well formed pairs of three depths, pairs with one token
\* changed, and a line without a replace token.
LinesPHE ==
    {Blank, IncludeB,
     <<W("ProxyHostnameEdit"), <<"a", ".", "com", "$">>, <<"a", "-", "com">>>>,
     <<W("ProxyHostnameEdit"), <<"b", ".", "a", ".", "com", "$">>,
                               <<"b", "-", "a", "-", "com">>>>,
     <<W("ProxyHostnameEdit"), <<"a", "-", "com", "$">>, <<"a", "-", "com">>>>,
     <<W("ProxyHostnameEdit"), <<"a", ".", "com">>, <<"a", "-", "com">>>>,
     <<W("ProxyHostnameEdit"), <<"a", ".", "com", "$">>, <<"a", ".", "com">>>>,
     <<W("ProxyHostnameEdit"), <<"b", ".", "a", ".", "com", "$">>>>,
     <<W("ProxyHostnameEdit"), <<"com", "$">>, <<"com">>>>}

SpecPHE == Init /\ [][Next(LinesPHE)]_vars

\* IncludeFile lines with a relative path, a relative path into a directory below,
\* and an absolute path.
LinesInclude ==
    {Blank, TitleA, IncludeB,
     <<W("IncludeFile"), <<"sub", "c.txt">>>>,
     <<W("IncludeFile"), <<"/", "etc", "d.txt">>>>}

SpecInclude == InitDirectory /\ [][Next(LinesInclude)]_vars

\* One line for every way ProcessLineAt returns: a stanza boundary, a comment, a
\* continuation segment, an Option line of one or three parts, an unknown label, and
\* lines with a directive.
LinesReturns ==
    {Blank, CommentC, IncludeB, TitleA, <<W("URL"), <<"https://", "a.com", Backslash>>>>,
     K("Option"), <<W("Option"), W("Cookie"), <<>>>>, UnknownFoo, O("Cookie")}

SpecReturns == Init /\ [][Next(LinesReturns)]_vars

\* One line for each directive with an ordering check that also changes the state.
LinesOrdering ==
    {IncludeB, TitleA, URLA, DescriptionD, O("NoCookie"), O("Cookie"), AnonOpen,
     <<W("AddUserHeader"), W("x")>>,
     <<W("ProxyHostnameEdit"), <<"a", ".", "com", "$">>, <<"a", "-", "com">>>>}

SpecOrdering == Init /\ [][Next(LinesOrdering)]_vars

\* Source comment lines: a page of help.oclc.org, the same page over http, a page of
\* another host, and a line with a word after the URL.
LinesSource ==
    {Blank, IncludeB, TitleA,
     <<W("#"), W("Source"), W("-"), <<"https://", "help.oclc.org", "/x">>>>,
     <<W("#"), W("Source"), W("-"), <<"http://", "help.oclc.org", "/x">>>>,
     <<W("#"), W("Source"), W("-"), <<"https://", "a.com", "/x">>>>,
     <<W("#"), W("Source"), W("-"), <<"https://", "help.oclc.org", "/x">>, W("x")>>}

SpecSource == Init /\ [][Next(LinesSource)]_vars

----------------------------------------------------------------------------
(* ProcessFile over a set of files on disk. *)

\* The files on disk: every path that opens, with its lines.  conf/a.txt includes
\* b.txt, conf/c.txt includes b.txt twice, conf/d.txt and conf/e.txt include each
\* other, inc/b.txt includes b.txt.
Files ==
    (<<"conf", "a.txt">> :> <<TitleA, IncludeB, URLA>>)
    @@ (<<"conf", "b.txt">> :> <<TitleA>>)
    @@ (<<"conf", "c.txt">> :> <<IncludeB, Blank, IncludeB>>)
    @@ (<<"conf", "d.txt">> :> <<<<W("IncludeFile"), W("e.txt")>>>>)
    @@ (<<"conf", "e.txt">> :> <<TitleA, <<W("IncludeFile"), W("d.txt")>>>>)
    @@ (<<"inc", "b.txt">> :> <<IncludeB, Blank>>)

\* The files that the IncludeFile lines of filePath name, and whether following them
\* from filePath leads to a file that is reached from itself (r8: the files reached
\* in at most eight steps, which covers a set of up to eight files).
IncludesItself(filePath, dir) ==
    LET Refs(f) ==
            {g \in DOMAIN Files :
                \E i \in DOMAIN Files[f] :
                    /\ Len(Files[f][i]) = 2
                    /\ Files[f][i][1] = W("IncludeFile")
                    /\ g = IF IsAbs(Files[f][i][2]) THEN Files[f][i][2]
                           ELSE Join(dir, Files[f][i][2])}
        Twice(r) == [f \in DOMAIN Files |-> r[f] \cup UNION {r[g] : g \in r[f]}]
        r1 == [f \in DOMAIN Files |-> Refs(f)]
        r2 == Twice(r1)
        r4 == Twice(r2)
        r8 == Twice(r4)
    IN \E g \in r8[filePath] \cup {filePath} : g \in r8[g]

\* ProcessFile is called with the path of one of the files.
StartFile ==
    /\ result.status = "idle"
    /\ stack = <<>>
    /\ \E filePath \in DOMAIN Files : EnterFile(filePath, stack)
    /\ UNCHANGED <<log, m, nread>>

\* One turn of the loop while the scanner has a line of the file.
ReadFileLine ==
    /\ stack # <<>>
    /\ ~Top.done /\ ~Top.pending
    /\ Top.lineNum < Len(Files[Top.filePath])
    /\ LET rawLine == Files[Top.filePath][Top.lineNum + 1]
       IN \E oracle \in Oracles(l, rawLine) :
             AfterLine(rawLine, At(Top.filePath, Top.lineNum + 1),
                       ProcessLineAt(l, rawLine, At(Top.filePath, Top.lineNum + 1), oracle))

\* The scanner is past the last line of the file.
ScanFileEnd ==
    /\ stack # <<>>
    /\ Top.lineNum = Len(Files[Top.filePath])
    /\ ScanEnd

\* A variant that does not enter a file that is being processed already.
EnterIncludeFileOnce ==
    /\ stack # <<>>
    /\ IF \E i \in DOMAIN stack : stack[i].filePath = Top.includeFilePath
       THEN /\ Top.pending
            /\ stack' = [stack EXCEPT ![Len(stack)].pending = FALSE]
            /\ UNCHANGED <<l, result, log, m, nread>>
       ELSE /\ EnterInclude
            /\ stack' # <<>> => stack'[Len(stack')].filePath \in DOMAIN Files

\* The recursive call for an IncludeFile line: os.Open fails for a path that is
\* not on disk, and may fail for one that is.
EnterIncludeFile ==
    /\ stack # <<>>
    /\ EnterInclude
    /\ stack' # <<>> => stack'[Len(stack')].filePath \in DOMAIN Files

NextFiles ==
    \/ StartFile
    \/ ReadFileLine
    \/ ScanFileEnd
    \/ EnterIncludeFile
    \/ Return

\* ProcessFile runs on one thread and takes its next step whenever it has one.  For
\* ReadFileLine weak fairness is written out, with its enabling condition in place of
\* ENABLED <<ReadFileLine>>_vars: the scanner has a line of the file.
SpecFiles ==
    /\ InitDirectory
    /\ [][NextFiles]_vars
    /\ WF_vars(StartFile) /\ WF_vars(ScanFileEnd) /\ WF_vars(EnterIncludeFile)
    /\ WF_vars(Return)
    /\ \/ []<>~(/\ stack # <<>>
                /\ ~Top.done /\ ~Top.pending
                /\ Top.lineNum < Len(Files[Top.filePath]))
       \/ []<><<ReadFileLine>>_vars

\* URL lines of the three forms, with U for URL and in lower case, and URL lines of
\* no form: no value, half of the -Append -Encoded pair.
LinesURL ==
    {Blank, IncludeB, URLA, K("URL"),
     <<W("U"), W("-Refresh"), W("a"), <<"https://", "b.com">>>>,
     <<W("URL"), W("-Redirect"), W("-Append"), W("-Encoded"), W("a"),
       <<"https://", "a.com", "/x">>>>,
     <<W("URL"), W("-Redirect"), W("-Append"), W("a"), <<"https://", "a.com">>>>,
     <<W("url"), <<"-form=", "post">>, W("a"), <<"https://", "a.com">>>>,
     <<W("URL"), <<"-Form=", "post">>, W("-RewriteHost"), W("a"), <<"https://", "b.com">>>>}

SpecURL == Init /\ [][Next(LinesURL)]_vars

\* One line for each switch: a label in the wrong case with a space at the end of the
\* line, a URL over http, and a Host line whose origin the stanza may hold already.
LinesSwitches ==
    {Blank, IncludeB, TitleA, <<W("TITLE"), W("A"), <<>>>>,
     <<W("URL"), <<"http://", "a.com">>>>, <<W("H"), <<"http://", "a.com">>>>}

SpecSwitches == Init /\ [][Next(LinesSwitches)]_vars
----------------------------------------------------------------------------
(* Reading the log. *)

\* The last ProcessLineAt call.
Last == log[Len(log)]

\* The diagnostics of mm that carry this code, in order.
WithCode(mm, code) == SelectSeq(mm, LAMBDA d : d.code = code)

\* The calls before call n that belong to the stanza call n is in (or closes): the
\* calls of the same file since that file's previous stanza boundary.  A ProcessFile
\* call always ends on a boundary, so the depth tells the files apart.
StanzaBefore(n) ==
    {i \in 1..(n - 1) :
        /\ log[i].depth = log[n].depth
        /\ \A j \in i..(n - 1) : log[j].depth = log[n].depth => log[j].kind # "boundary"}

\* Those of them made since the stanza's last followed IncludeFile line.
SinceInclude(n) ==
    {i \in StanzaBefore(n) :
        \A j \in i..(n - 1) :
            ~(l.FollowIncludeFile /\ log[j].depth = log[n].depth
                /\ log[j].directive = "IncludeFile")}

IsDirective(e, d) == e.kind = "directive" /\ e.directive = d

\* The greatest number of the set I, or 0.
MaxOf(I) == IF I = {} THEN 0 ELSE CHOOSE i \in I : \A j \in I : j <= i

\* The last call of the set I that processed directive d, or 0.
LastDirective(I, d) == MaxOf({i \in I : IsDirective(log[i], d)})

----------------------------------------------------------------------------
(* Claims. *)

\* C1: every opener option processed in a stanza is either removed from OpenOptions
\* by a later paired closer of that stanza or named in an L4002 diagnostic by the time
\* the stanza's state is discarded: an entry leaves OpenOptions only in a ProcessLineAt
\* call that processes its paired closer or returns L4002 naming it.
C1_OpenerClosedOrReported ==
    [][\A i \in DOMAIN l.State.OpenOptions :
          (\A j \in DOMAIN l'.State.OpenOptions :
                l'.State.OpenOptions[j] # l.State.OpenOptions[i])
          => /\ Len(log') = Len(log) + 1
             /\ \/ IsDirective(log'[Len(log')], OptionPairs[l.State.OpenOptions[i]])
                \/ \E k \in DOMAIN m' : /\ m'[k].code = "L4002"
                                        /\ m'[k].dir = l.State.OpenOptions[i]]_vars

\* C2: a ProcessLineAt call on a stanza boundary returns exactly one L4002 diagnostic
\* for each entry of OpenOptions, in list order, each naming the stanza's title, that
\* opener and the closer the pairing table gives it (Option NoCookie -> Option Cookie,
\* Option HideEZproxy -> Option NoHideEZproxy), and none when OpenOptions is empty.
C2_UnclosedReportedInOrder ==
    [][(Len(log') = Len(log) + 1 /\ log'[Len(log')].kind = "boundary")
       => /\ Len(WithCode(m', "L4002")) = Len(l.State.OpenOptions)
          /\ \A i \in DOMAIN l.State.OpenOptions :
                LET d == WithCode(m', "L4002")[i]
                IN /\ d.dir = l.State.OpenOptions[i]
                   /\ d.dir2 = OptionPairs[d.dir]
                   /\ d.dir = "OptionDomainCookieOnly" => d.dir2 = "OptionCookie"
                   /\ d.dir = "OptionHideEZproxy" => d.dir2 = "OptionNoHideEZproxy"
                   /\ d.title = l.State.Title]_vars

\* C2 witness: a boundary call that returned two L4002 diagnostics, for two different
\* openers, in the order the openers were processed.
C2_TwoUnclosedReported ==
    /\ log # <<>>
    /\ Last.kind = "boundary"
    /\ WithCode(m, "L4002") = m
    /\ Len(m) = 2
    /\ m[1].dir = "OptionHideEZproxy" /\ m[2].dir = "OptionDomainCookieOnly"
    /\ \E i, j \in StanzaBefore(Len(log)) :
          /\ i < j
          /\ IsDirective(log[i], "OptionHideEZproxy")
          /\ IsDirective(log[j], "OptionDomainCookieOnly")

C4_AnonymousURLFence ==
    (log # <<>> /\ Last.kind = "boundary")
    => LET a == LastDirective(StanzaBefore(Len(log)), "AnonymousURL")
       IN (WithCode(m, "L4001") # <<>>) <=> (a # 0 /\ log[a].value # K("-*"))

\* C5: every Find directive that is not directly followed by a Replace directive leads
\* to the L4004 diagnostic, whatever follows it: when the run has ended, some call
\* after such a Find has returned L4004.
C5_FindAlwaysFlagged ==
    result.status = "ok"
    => \A i \in 1..(Len(log) - 1) :
          (IsDirective(log[i], "Find") /\ ~IsDirective(log[i + 1], "Replace"))
          => \E j \in (i + 1)..Len(log) : WithCode(log[j].m, "L4004") # <<>>

\* C6: when Previous is Find and the line is classified as a directive other than
\* Replace, ProcessLineAt returns L4004 exactly once, still runs the directive's own
\* checks (a Title is reported out of order after Find, as a duplicate if the stanza
\* has a title, and becomes the stanza's title; an opener is reported out of order and
\* joins OpenOptions; a closer that is not the defensive Option Cookie is reported out
\* of order and closes its openers) and sets Previous to the directive.
C6_FindCheckIsAdditive ==
    [][(/\ Len(log') = Len(log) + 1
        /\ l.State.Previous = "Find"
        /\ log'[Len(log')].kind = "directive"
        /\ log'[Len(log')].directive # "Replace")
       => LET e == log'[Len(log')]
              S == l.State
              closes == \E i \in DOMAIN S.OpenOptions : S.OpenOptions[i] = "OptionNoCookie"
          IN /\ Len(WithCode(m', "L4004")) = 1
             /\ l'.State.Previous = e.directive
             /\ e.directive = "Title"
                => /\ l'.State.Title = e.value
                   /\ WithCode(m', "L1001") = <<DPrev("L1001", "Find")>>
                   /\ (S.Title # EmptyStr) <=> (WithCode(m', "L2001") # <<>>)
             /\ e.directive = "OptionNoCookie"
                => /\ l'.State.OpenOptions = Append(S.OpenOptions, "OptionNoCookie")
                   /\ Len(WithCode(m', "L1005")) = 1
             /\ (e.directive = "OptionCookie" /\ (S.Title # EmptyStr \/ closes))
                => /\ l'.State.OpenOptions =
                         SelectSeq(S.OpenOptions, LAMBDA d : d # "OptionNoCookie")
                   /\ Len(WithCode(m', "L1006")) = 1
             /\ (e.directive = "OptionCookie" /\ S.Title = EmptyStr /\ ~closes)
                => /\ l'.State.OpenOptions = S.OpenOptions
                   /\ m' = <<D0("L4004")>>]_vars

\* C6 witness: a Title line right after a Find line returned L1001 and L4004, became
\* the stanza's title and the previous directive.
C6_TitleAfterFind ==
    /\ Len(log) >= 2
    /\ IsDirective(log[Len(log) - 1], "Find")
    /\ IsDirective(Last, "Title")
    /\ Len(WithCode(m, "L4004")) = 1
    /\ Len(WithCode(m, "L1001")) = 1
    /\ l.State.Title = K("A")
    /\ l.State.Previous = "Title"

\* The origin a URL, Host or HostJavaScript call resolved its line to, or "".
EntryOrigin(e) ==
    LET u == IF e.directive = "URL" THEN FindURLFromLine(TrimSpace(e.line)) ELSE e.value
        p == ParseURL(u)
        q == ParseURL(StrCat(K("http://"), u))
    IN IF e.kind # "directive" \/ e.directive \notin {"URL", "Host", "HostJavaScript"}
       THEN EmptyStr
       ELSE IF p.err THEN EmptyStr
       ELSE IF p.Host # "" THEN OriginOf(p)
       ELSE IF e.directive = "URL" \/ q.err THEN EmptyStr
       ELSE OriginOf(q)

\* The least number of the non-empty set I.
MinOf(I) == CHOOSE i \in I : \A j \in I : i <= j

\* C7: a Host, HostJavaScript or URL directive that resolves to the origin of such a
\* directive in a different, earlier stanza returns L2002, and the location cited is
\* that of the first occurrence of the origin in the run.
C7_SecondOriginCitesFirst ==
    (log # <<>> /\ EntryOrigin(Last) # EmptyStr)
    => LET n == Len(log)
           same == {i \in 1..(n - 1) : EntryOrigin(log[i]) = EntryOrigin(Last)}
       IN (same \ StanzaBefore(n) # {})
          => WithCode(m, "L2002") = <<DAt("L2002", log[MinOf(same)].at)>>

\* C8: a Title line whose value equals the value of a Title line processed earlier in
\* the run (any stanza, any file) returns L2004 once, citing the location of the
\* first Title line that had that value.
C8_TitleSeenCitesFirst ==
    (log # <<>> /\ IsDirective(Last, "Title"))
    => LET same == {i \in 1..(Len(log) - 1) :
                       IsDirective(log[i], "Title") /\ log[i].value = Last.value}
       IN same # {} => WithCode(m, "L2004") = <<DAt("L2004", log[MinOf(same)].at)>>

\* C8 witness: the third Title line with one value, in an included file, returned
\* L2004 citing the first one, which stands in the enclosing file.
C8_ThirdTitleCitesFirst ==
    /\ Len(log) >= 3
    /\ IsDirective(Last, "Title")
    /\ Last.depth = 2
    /\ Cardinality({i \in 1..(Len(log) - 1) :
                       IsDirective(log[i], "Title") /\ log[i].value = Last.value}) = 2
    /\ IsDirective(log[1], "Title") /\ log[1].value = Last.value
    /\ WithCode(m, "L2004") = <<DAt("L2004", At(TopFile, 1))>>

\* C9: every Title directive processed in a stanza after another Title directive of
\* the same stanza returns L2001, whatever the values of the two Title lines.
C9_SecondTitleIsDuplicate ==
    (/\ log # <<>>
     /\ IsDirective(Last, "Title")
     /\ \E i \in StanzaBefore(Len(log)) : IsDirective(log[i], "Title"))
    => WithCode(m, "L2001") # <<>>

\* C10: every URL directive processed in a stanza after another URL directive of the
\* same stanza returns L2003, whatever the form or value of the two URL lines.
C10_SecondURLIsDuplicate ==
    (/\ log # <<>>
     /\ IsDirective(Last, "URL")
     /\ \E i \in StanzaBefore(Len(log)) : IsDirective(log[i], "URL"))
    => WithCode(m, "L2003") # <<>>


\* C11: with the case switch on, a line whose label is found only in the lower-case
\* table returns exactly one L5001 diagnostic, naming the label and the directive, and
\* apart from it exactly the diagnostics, in order, that the same line written with a
\* label of LabelToDirective for that directive returns from the same state.
C11_WrongCaseIsAdditive ==
    [][(/\ Len(log') = Len(log) + 1
        /\ log'[Len(log')].kind = "directive"
        /\ l.DirectiveCase
        /\ l'.State.Label \notin DOMAIN LabelToDirective)
       => LET e == log'[Len(log')]
              label == l'.State.Label
              joined == IF l.State.InMultiline
                        THEN StrCat(l.State.PreviousMultilineSegments, TrimLeft(e.line))
                        ELSE TrimLeft(e.line)
              rest == SubSeq(joined, Len(label) + 1, Len(joined))
              from == [l EXCEPT !.State.PreviousMultilineSegments = EmptyStr]
          IN /\ WithCode(m', "L5001") = <<Diag("L5001", label, e.directive, "", NoAt)>>
             /\ \A p \in LabelPairs :
                   p[2] = e.directive
                   => \E oracle \in Oracles(l, e.line) :
                         SelectSeq(m', LAMBDA d : d.code # "L5001")
                            = ProcessLineAt(from, p[1] \o rest, e.at, oracle).m]_vars

\* C11 witness: a Title line labelled TITLE, right after a Find line, returned the
\* trailing white space, wrong case, Find/Replace and ordering diagnostics.
C11_WrongCaseAfterFind ==
    /\ log # <<>>
    /\ IsDirective(Last, "Title")
    /\ l.State.Label = K("TITLE")
    /\ [i \in DOMAIN m |-> m[i].code] = <<"L5002", "L5001", "L4004", "L1001">>

\* C12: a line whose label is in neither table returns exactly one L9001 diagnostic,
\* naming the label, and nothing else but L5002; it leaves State.Previous as it was, so
\* a Title or URL line that follows it gets the ordering diagnostic (L1001, L1002)
\* exactly when the directive processed before the unknown line is not one that may
\* precede it, and the diagnostic names that directive.
C12_UnknownKeepsPrevious ==
    [][Len(log') = Len(log) + 1
       => LET e == log'[Len(log')]
          IN /\ e.kind = "unknown"
                => /\ WithCode(m', "L9001")
                        = <<Diag("L9001", <<TrimLeft(e.line)[1]>>, "", "", NoAt)>>
                   /\ SelectSeq(m', LAMBDA d : d.code \notin {"L9001", "L5002"}) = <<>>
                   /\ l'.State.Previous = l.State.Previous
             /\ (/\ Len(log) >= 2
                 /\ Last.kind = "unknown" /\ Last.depth = e.depth
                 /\ log[Len(log) - 1].kind = "directive"
                 /\ log[Len(log) - 1].depth = e.depth)
                => LET before == log[Len(log) - 1].directive
                   IN /\ IsDirective(e, "URL")
                         => WithCode(m', "L1002")
                              = IF before \in URLAllowed THEN <<>>
                                ELSE <<DPrev("L1002", before)>>
                      /\ IsDirective(e, "Title")
                         => WithCode(m', "L1001")
                              = IF before \in TitleAllowed THEN <<>>
                                ELSE <<DPrev("L1001", before)>>]_vars

\* C12 witness: Title, an unknown line, URL: the URL line returned no diagnostic.
C12_UnknownBetweenTitleAndURL ==
    /\ Len(log) >= 3
    /\ IsDirective(log[Len(log) - 2], "Title")
    /\ log[Len(log) - 1].kind = "unknown"
    /\ log[Len(log) - 1].m = <<Diag("L9001", K("Foo"), "", "", NoAt)>>
    /\ IsDirective(Last, "URL")
    /\ Last.m = <<>>
    /\ l.State.Previous = "URL"

\* C13: with the white space switch on, a ProcessLineAt call returns L5002, once and
\* first, if and only if the line it was passed ends in a space or a tab, whatever the
\* line holds and whatever the stanza state is.
C13_TrailingWhitespaceReported ==
    [][(Len(log') = Len(log) + 1 /\ l.Whitespace)
       => LET e == log'[Len(log')]
          IN IF TrailingSpaceOrTabCheck(e.line)
             THEN /\ WithCode(m', "L5002") = <<D0("L5002")>>
                  /\ m'[1].code = "L5002"
             ELSE WithCode(m', "L5002") = <<>>]_vars

\* C13 witness: a line of one space closed a stanza that has a Title and no URL, and
\* returned the white space diagnostic before the missing URL diagnostic.
C13_WhitespaceOnlyBoundary ==
    /\ log # <<>>
    /\ l.Whitespace
    /\ Last.line = << <<>>, <<>> >>
    /\ Last.kind = "boundary"
    /\ [i \in DOMAIN m |-> m[i].code] = <<"L5002", "L4003">>

\* C14: a ProcessLineAt call on a stanza boundary (an empty line, a line of white
\* space, a lone #) leaves the empty stanza state behind, whatever the lines before it
\* were: no title, URL or origin, Previous Undefined, no open option, both fences
\* closed, no continuation pending, no expected OCLC title, not a separator, no
\* ProxyHostnameEdit pattern, no stanza origin; only LastLineEmpty is set.
C14_BoundaryEmptiesState ==
    [][(/\ Len(log') = Len(log) + 1
        /\ TrimSpace(log'[Len(log')].line) \in {EmptyStr, K("#")})
       => /\ l'.State = [ZeroState EXCEPT !.LastLineEmpty = TRUE]
          /\ l'.State.Title = EmptyStr /\ l'.State.URL = EmptyStr
          /\ l'.State.URLOrigin = EmptyStr
          /\ l'.State.Previous = "Undefined" /\ l'.State.Current = "Undefined"
          /\ l'.State.OpenOptions = <<>>
          /\ ~l'.State.AnonymousURLNeedsClosing /\ ~l'.State.AddUserHeaderNeedsClosing
          /\ ~l'.State.InMultiline /\ l'.State.PreviousMultilineSegments = EmptyStr
          /\ l'.State.OCLCTitle = EmptyStr /\ l'.State.Source = EmptyStr
          /\ ~l'.State.IsSeparator
          /\ l'.State.ProxyHostnameEditPatterns = {}
          /\ DOMAIN l'.State.StanzaOrigins = {}]_vars

\* C14 witness: a line of white space closed a stanza that had a title, an open
\* option and a continuation pending.
C14_FullStateEmptied ==
    /\ Len(log) >= 4
    /\ Last.line = <<Tab>>
    /\ Last.kind = "boundary"
    /\ \E i, j, n \in StanzaBefore(Len(log)) :
          /\ IsDirective(log[i], "Title")
          /\ IsDirective(log[j], "OptionNoCookie")
          /\ n = Len(log) - 1 /\ log[n].kind = "continuation"
    /\ l.State = [ZeroState EXCEPT !.LastLineEmpty = TRUE]

\* The find and replace tokens of a ProxyHostnameEdit call that has both, checked
\* with the additional checks on.
IsPHEPair(e) ==
    /\ l.AdditionalPHEChecks
    /\ IsDirective(e, "ProxyHostnameEdit")
    /\ Len(e.value) = 2

\* The call returned L3002 or L3003.
Malformation(e) == \E k \in DOMAIN e.m : e.m[k].code \in {"L3002", "L3003"}

\* C15 (as stated): with the additional checks on, a ProxyHostnameEdit line with find
\* token X$ and replace token X with its periods replaced by hyphens returns neither
\* L3002 nor L3003, and every line that differs from such a pair in the find token
\* only, or in the replace token only, returns at least one of them.
C15_EveryChangeReported ==
    \A n \in DOMAIN log :
        IsPHEPair(log[n])
        => \A X \in {SubSeq(x[2], 1, Len(x[2]) - 1) : x \in {y \in LinesPHE : Len(y) = 3}} :
              LET Hyphenated(Y) == [j \in DOMAIN Y |-> IF Y[j] = "." THEN "-" ELSE Y[j]]
                  find == log[n].value[1]
                  replace == log[n].value[2]
              IN /\ (find = X \o <<"$">> /\ replace = Hyphenated(X))
                    => ~Malformation(log[n])
                 /\ (find # X \o <<"$">> /\ replace = Hyphenated(X))
                    => Malformation(log[n])
                 /\ (find = X \o <<"$">> /\ replace # Hyphenated(X))
                    => Malformation(log[n])

\* C15 (amended): such a pair returns neither L3002 nor L3003; every line that differs
\* from it in the replace token only returns L3003; every line that differs from it in
\* the find token only returns at least one of the two, unless the new find token also
\* ends in $ and, with its periods replaced by hyphens, still gives the replace token.
C15_ChangeReportedUnlessStillPaired ==
    \A n \in DOMAIN log :
        IsPHEPair(log[n])
        => \A X \in {SubSeq(x[2], 1, Len(x[2]) - 1) : x \in {y \in LinesPHE : Len(y) = 3}} :
              LET Hyphenated(Y) == [j \in DOMAIN Y |-> IF Y[j] = "." THEN "-" ELSE Y[j]]
                  find == log[n].value[1]
                  replace == log[n].value[2]
                  paired == /\ find # <<>> /\ find[Len(find)] = "$"
                            /\ Hyphenated(SubSeq(find, 1, Len(find) - 1)) = replace
              IN /\ (find = X \o <<"$">> /\ replace = Hyphenated(X))
                    => ~Malformation(log[n])
                 /\ (find # X \o <<"$">> /\ replace = Hyphenated(X))
                    => (Malformation(log[n]) <=> ~paired)
                 /\ (find = X \o <<"$">> /\ replace # Hyphenated(X))
                    => WithCode(log[n].m, "L3003") = <<D0("L3003")>>

\* C15 witness: in one run, a pair a.com$ / a-com returned no malformation diagnostic,
\* the same find token with another replace token returned L3003, and the find token
\* a-com$ with the replace token a-com returned none.
C15_PairAndChangedTokens ==
    /\ l.AdditionalPHEChecks
    /\ \E i, j, k \in DOMAIN log :
          /\ IsPHEPair(log[i]) /\ IsPHEPair(log[j]) /\ IsPHEPair(log[k])
          /\ log[i].value = <<<<"a", ".", "com", "$">>, <<"a", "-", "com">>>>
          /\ ~Malformation(log[i])
          /\ log[j].value = <<<<"a", ".", "com", "$">>, <<"a", ".", "com">>>>
          /\ WithCode(log[j].m, "L3003") # <<>>
          /\ log[k].value = <<<<"a", "-", "com", "$">>, <<"a", "-", "com">>>>
          /\ ~Malformation(log[k])

\* The find token of a ProxyHostnameEdit call, without its trailing $.
FindOf(e) ==
    LET f == e.value[1]
    IN IF f # <<>> /\ f[Len(f)] = "$" THEN SubSeq(f, 1, Len(f) - 1) ELSE f

Mine(d) == {i \in DOMAIN log : log[i].depth = d /\ \A j \in i..Len(log) : log[j].depth >= d}

\* Call i passed the empty line added at the end of a file, not a line of the file:
\* its location repeats the location of the call before it, or is line 0.
Synthetic(d, i) ==
    /\ log[i].line = EmptyStr
    /\ \/ log[i].at.line = 0
       \/ \E j \in Mine(d) : j < i /\ log[j].at = log[i].at

\* C17: when the loop of a ProcessFile call has ended, the lines of its file were
\* passed to ProcessLineAt once each and in order (the calls for lines 1, 2, .. k in
\* that order), followed by exactly one call with an added empty line if and only if
\* the file does not end with a blank line (read here as any line that closes a
\* stanza); and when the top-level call returns without error the last call made for
\* its file was on a stanza boundary and the stanza state is empty.
C17_EveryLineOnceThenClosed ==
    /\ (stack # <<>> /\ Top.done)
       => LET d == Len(stack)
              physical == {i \in Mine(d) : ~Synthetic(d, i)}
              added == {i \in Mine(d) : Synthetic(d, i)}
          IN /\ Cardinality(physical) = Top.lineNum
             /\ \A i \in physical :
                   log[i].at = At(Top.filePath, Cardinality({j \in physical : j <= i}))
             /\ \A i \in added : \A j \in physical : j < i
             /\ Cardinality(added) <= 1
             /\ (added = {})
                <=> /\ physical # {}
                    /\ TrimSpace(log[MaxOf(physical)].line) \in {EmptyStr, K("#")}
    /\ result.status = "ok"
       => /\ Mine(1) # {}
          /\ log[MaxOf(Mine(1))].kind = "boundary"
          /\ l.State = [ZeroState EXCEPT !.LastLineEmpty = TRUE]

\* C18: the warning count of a ProcessFile call is the number of diagnostics that the
\* ProcessLineAt calls for its file returned, the call for the added empty line
\* included, plus the counts returned by the calls for its included files; when the
\* top-level call returns without error its count is the number of diagnostics of all
\* calls of the run, and it is 0 if and only if no call returned a diagnostic.
C18_WarningCountIsTotal ==
    LET RECURSIVE Total(_)
        Total(I) == IF I = {} THEN 0
                    ELSE Len(log[MaxOf(I)].m) + Total(I \ {MaxOf(I)})
        Since(d) == {i \in DOMAIN log : \A j \in i..Len(log) : log[j].depth >= d}
    IN /\ \A d \in DOMAIN stack :
             stack[d].warningCount
                = Total(Since(d)) - (IF d < Len(stack) THEN Total(Since(d + 1)) ELSE 0)
       /\ result.status = "ok"
          => /\ result.warningCount = Total(DOMAIN log)
             /\ (result.warningCount = 0) <=> (\A n \in DOMAIN log : log[n].m = <<>>)

\* C18 witness: a run that returned without error a count of at least two, with a
\* diagnostic from a line of an included file and one from a line of the file itself.
C18_CountAcrossInclude ==
    /\ result.status = "ok"
    /\ result.warningCount >= 2
    /\ \E i, j \in DOMAIN log :
          /\ log[i].depth = 2 /\ log[i].m # <<>>
          /\ log[j].depth = 1 /\ log[j].m # <<>>

\* C19: from the start of the top-level ProcessFile call to its return, through
\* every call for an included file, no step removes a key from PreviousTitles or from
\* PreviousOrigins; hence a Title line whose value is a key of PreviousTitles returns
\* L2004, and a URL, Host or HostJavaScript line whose origin is a key of
\* PreviousOrigins returns L2002, in whichever file of the include tree the key was
\* recorded and in whichever file the line is; in particular a Title line returns
\* L2004 whenever any earlier Title line of the run had the same value.
C19_SeenMapsOnlyGrow ==
    [][/\ DOMAIN l.PreviousTitles \subseteq DOMAIN l'.PreviousTitles
       /\ DOMAIN l.PreviousOrigins \subseteq DOMAIN l'.PreviousOrigins
       /\ Len(log') = Len(log) + 1
          => LET e == log'[Len(log')]
             IN /\ (IsDirective(e, "Title") /\ e.value \in DOMAIN l.PreviousTitles)
                   => WithCode(m', "L2004") = <<DAt("L2004", l.PreviousTitles[e.value])>>
                /\ (EntryOrigin(e) # EmptyStr /\ EntryOrigin(e) \in DOMAIN l.PreviousOrigins)
                   => WithCode(m', "L2002")
                        = <<DAt("L2002", l.PreviousOrigins[EntryOrigin(e)])>>
                /\ \A i \in DOMAIN log :
                      (IsDirective(log[i], "Title") /\ IsDirective(e, "Title")
                         /\ log[i].value = e.value)
                      => WithCode(m', "L2004") # <<>>]_vars

\* C19 witness: an origin recorded in the top-level file before an IncludeFile line was
\* reported as a duplicate by a URL line of the included file, which cited the line of
\* the top-level file.
C19_DuplicateInsideInclude ==
    /\ Len(log) = 4
    /\ IsDirective(log[1], "URL") /\ log[1].depth = 1
    /\ log[2].kind = "boundary" /\ log[2].depth = 1
    /\ IsDirective(log[3], "IncludeFile") /\ log[3].depth = 1
    /\ IsDirective(log[4], "URL") /\ log[4].depth = 2
    /\ WithCode(log[4].m, "L2002") = <<DAt("L2002", log[1].at)>>

\* C20: when the file of an IncludeFile line does not open, or its scanner fails, the
\* enclosing ProcessFile call and every call above it return the error at once: the run
\* ends with an error result, no further line of the enclosing file or of a file above
\* it is passed to ProcessLineAt, and no diagnostic is returned for the failure.
C20_IncludeFailureAborts ==
    [][/\ (stack # <<>> /\ Top.pending /\ Len(stack') <= Len(stack))
          => /\ result'.status = "error" /\ stack' = <<>>
             /\ log' = log /\ m' = m
       /\ (Len(stack) >= 2 /\ Top.done /\ Top.scanErr)
          => /\ result'.status = "error" /\ stack' = <<>>
             /\ log' = log /\ m' = m
       /\ result.status = "error"
          => (log' = log /\ result' = result /\ stack' = <<>>)]_vars

\* C20 witness: the run ended with an error right after an IncludeFile line of the
\* top-level file, with the stanza of the Title line before it still open.
C20_FailedAfterIncludeLine ==
    /\ result.status = "error"
    /\ stack = <<>>
    /\ Len(log) = 2
    /\ IsDirective(log[1], "Title")
    /\ IsDirective(log[2], "IncludeFile") /\ log[2].depth = 1
    /\ l.State.Title # EmptyStr

\* C21 (as stated): the path ProcessFile is called with for a followed IncludeFile
\* line is the argument itself when it is absolute; otherwise it is the argument joined
\* to the directory the caller configured, when one was configured, and else to the
\* parent directory of the file that holds the line, at every depth.
C21_RelativeToEnclosingFile ==
    \A d \in DOMAIN stack :
        stack[d].pending
        => LET arg == log[MaxOf(Mine(d))].line[2]
           IN stack[d].includeFilePath
                = IF IsAbs(arg) THEN arg
                  ELSE IF l.IncludeFileDirectory = <<"inc">> THEN Join(<<"inc">>, arg)
                  ELSE Join(Dir(stack[d].filePath), arg)

\* C21 (amended): the path is the argument itself when it is absolute; otherwise it is
\* the argument joined to the directory the caller configured, when one was
\* configured, and else to the parent directory of the first file the Linter
\* processed (the top-level file), at every depth.
C21_RelativeToFirstFile ==
    \A d \in DOMAIN stack :
        stack[d].pending
        => LET arg == log[MaxOf(Mine(d))].line[2]
           IN stack[d].includeFilePath
                = IF IsAbs(arg) THEN arg
                  ELSE IF l.IncludeFileDirectory = <<"inc">> THEN Join(<<"inc">>, arg)
                  ELSE Join(Dir(stack[1].filePath), arg)

\* C21 witness: with no directory configured, the line IncludeFile b.txt of the
\* included file conf/sub/c.txt is about to be followed to conf/b.txt.
C21_NestedRelativeInclude ==
    /\ Len(stack) = 2
    /\ stack[1].filePath = <<"conf", "config.txt">>
    /\ stack[2].filePath = <<"conf", "sub", "c.txt">>
    /\ stack[2].pending
    /\ Last.line = IncludeB /\ Last.depth = 2
    /\ stack[2].includeFilePath = <<"conf", "b.txt">>

\* C22: when ProcessLineAt returns, State.Previous is the directive of the line if the
\* line (joined with the continuation segments before it) was classified as a
\* directive, Undefined if the line was a stanza boundary, and what it was before the
\* call if the line was a comment, a segment ending in a backslash, an Option line
\* not of two parts, or a line with an unknown label.
C22_PreviousAfterProcessLineAt ==
    [][Len(log') = Len(log) + 1
       => LET e == log'[Len(log')]
          IN l'.State.Previous
               = CASE e.kind = "directive" -> e.directive
                   [] e.kind = "boundary" -> "Undefined"
                   [] e.kind \in {"comment", "continuation", "malformed", "unknown"}
                        -> l.State.Previous]_vars

\* C22 witness: after Title came three lines of three different kinds among comment,
\* segment ending in a backslash, Option line not of two parts and unknown label, all
\* in one stanza; Title is still the previous directive.
C22_TitleStillPrevious ==
    /\ Len(log) = 4
    /\ log[1].directive = "Title"
    /\ {log[i].kind : i \in 2..4} \subseteq {"comment", "continuation", "malformed", "unknown"}
    /\ Cardinality({log[i].kind : i \in 2..4}) = 3
    /\ l.State.Previous = "Title"

C24_SecondTitleKeepsFirst ==
    [][Len(log') = Len(log) + 1
       => ((/\ IsDirective(log'[Len(log')], "Title")
            /\ l.State.Title # EmptyStr)
           => l'.State.Title = l.State.Title)]_vars

\* C25 (as stated): a closer option line that goes through ProcessOptionCloser returns
\* L1006 exactly when State.Previous is outside {DbVar and DbVar0 to DbVar9, URL, Host,
\* HostJavaScript, Domain, DomainJavaScript, Replace, AddUserHeader, AnonymousURL,
\* NeverProxy, the closer options}.
C25_CloserAfterDbVarFamily ==
    [][Len(log') = Len(log) + 1
       => LET e == log'[Len(log')]
              allowed == DbVars \cup {"URL", "Host", "HostJavaScript", "Domain",
                                      "DomainJavaScript", "Replace", "AddUserHeader",
                                      "AnonymousURL", "NeverProxy"} \cup CloserOptions
          IN (/\ e.kind = "directive"
              /\ e.directive \in CloserOptions
              /\ ~DefensiveOptionCookie(l.State, e.directive))
             => (WithCode(m', "L1006") # <<>> <=> l.State.Previous \notin allowed)]_vars

\* C26: a closer option line that goes through ProcessOptionCloser leaves in
\* State.OpenOptions exactly the entries that are not paired with it, every one of
\* them, in the order they had.
C26_CloserRemovesItsOpeners ==
    [][Len(log') = Len(log) + 1
       => LET e == log'[Len(log')]
              before == l.State.OpenOptions
              kept == {i \in DOMAIN before : OptionPairs[before[i]] # e.directive}
              after == l'.State.OpenOptions
          IN (/\ e.kind = "directive"
              /\ e.directive \in CloserOptions
              /\ ~DefensiveOptionCookie(l.State, e.directive))
             => /\ Len(after) = Cardinality(kept)
                /\ \A i \in kept :
                      after[Cardinality({j \in kept : j <= i})] = before[i]]_vars

\* C26 witness: Option Cookie closed Option DomainCookieOnly and Option NoCookie
\* together and left Option HideEZproxy, opened between them.
C26_CookieClosedTwo ==
    /\ Len(log) = 4
    /\ log[4].line = O("Cookie")
    /\ {log[1].line, log[3].line} = {O("DomainCookieOnly"), O("NoCookie")}
    /\ log[2].line = O("HideEZproxy")
    /\ l.State.OpenOptions = <<"OptionHideEZproxy">>

\* C27: the Linter after an opener, closer, AnonymousURL, AddUserHeader, Title, URL,
\* Description or ProxyHostnameEdit line does not depend on State.Previous before the
\* line: from the Linter before the line with any other previous directive, the same
\* line at the same place leaves the same Linter, with State.Previous the directive of
\* the line, whatever diagnostics either call returns.
C27_PreviousDoesNotBlock ==
    [][Len(log') = Len(log) + 1
       => LET e == log'[Len(log')]
          IN (/\ e.kind = "directive"
              /\ e.directive \in OpenerOptions \cup CloserOptions
                                   \cup {"AnonymousURL", "AddUserHeader", "Title", "URL",
                                         "Description", "ProxyHostnameEdit"})
             => /\ l'.State.Previous = e.directive
                /\ \A p \in {"Undefined", "Title", "URL", "Find", "AnonymousURL",
                             "OptionNoCookie"} :
                   \A oracle \in Oracles(l, e.line) :
                      ProcessLineAt([l EXCEPT !.State.Previous = p],
                                    e.line, e.at, oracle).l = l']_vars

\* C27 witness: URL as the first line of a stanza and Option NoCookie after it were
\* both reported as out of order, and the stanza has the url and the open option.
C27_OutOfOrderButRecorded ==
    /\ Len(log) = 2
    /\ IsDirective(log[1], "URL") /\ WithCode(log[1].m, "L1002") # <<>>
    /\ IsDirective(log[2], "OptionNoCookie") /\ WithCode(log[2].m, "L1005") # <<>>
    /\ l.State.URL # EmptyStr
    /\ l.State.OpenOptions = <<"OptionNoCookie">>
    /\ l.State.Previous = "OptionNoCookie"

C30_OriginsWaitForBoundary ==
    [][Len(log') = Len(log) + 1
       => LET e == log'[Len(log')]
          IN /\ e.kind # "boundary" => l'.PreviousOrigins = l.PreviousOrigins
             /\ WithCode(m', "L2002") # <<>>
                => \E i \in DOMAIN log :
                      /\ EntryOrigin(log[i]) = EntryOrigin(e)
                      /\ \/ log[i].depth # e.depth
                         \/ \E j \in i..Len(log) :
                               log[j].depth = e.depth /\ log[j].kind = "boundary"]_vars

\* C30 witness: URL, H and URL again with one origin in one stanza: none of them
\* returned L2002, and the origin is in StanzaOrigins and not in PreviousOrigins.
C30_SameOriginInOneStanza ==
    /\ Len(log) = 3
    /\ log[1].line = URLA /\ log[2].line = HostA /\ log[3].line = URLA
    /\ \A i \in 1..3 : log[i].depth = 1 /\ WithCode(log[i].m, "L2002") = <<>>
    /\ DOMAIN l.State.StanzaOrigins = {EntryOrigin(log[1])}
    /\ l.PreviousOrigins = EmptyMap

C32_SuppressedForSeparatorOnly ==
    [][Len(log') = Len(log) + 1
       => LET e == log'[Len(log')]
              stanza == {i \in DOMAIN log :
                            /\ log[i].depth = e.depth
                            /\ log[i].kind \in {"directive", "unknown", "malformed"}
                            /\ \A j \in i..Len(log) :
                                  log[j].depth = e.depth => log[j].kind # "boundary"}
              separator ==
                  /\ Cardinality({i \in stanza : IsDirective(log[i], "Title")}) = 1
                  /\ \E i \in stanza : IsDirective(log[i], "Description")
                  /\ \A i \in stanza :
                        \/ IsDirective(log[i], "Title") /\ \A j \in stanza : i <= j
                        \/ IsDirective(log[i], "Description")
          IN (/\ e.kind = "boundary"
              /\ l.State.Title # EmptyStr
              /\ l.State.URL = EmptyStr)
             => (WithCode(m', "L4003") = <<>> <=> separator)]_vars

\* C33: with the Source check on, a Source comment line either sets a non-empty
\* expected OCLC title and returns nothing, or returns exactly one L9003 and leaves
\* the expected title as it was; a lookup that found no Title line is such a failure.
C33_FailedLookupReportedOnce ==
    [][Len(log') = Len(log) + 1
       => LET e == log'[Len(log')]
              reported == WithCode(m', "L9003")
          IN l.Source /\ IsSourceLine(TrimSpace(e.line))
             => /\ Len(reported) =< 1
                /\ Len(m') = Len(reported)
                /\ reported = <<>> => l'.State.OCLCTitle # EmptyStr
                /\ reported # <<>> => /\ l'.State.OCLCTitle = l.State.OCLCTitle
                                      /\ l'.State.Source = l.State.Source]_vars

\* C34: while a line of the first file is the next to be processed, the title, url,
\* open options, AnonymousURL fence and pending URL origin of the stanza state are
\* those that the lines of the first file alone leave, whatever the included files
\* read in between held.
C34_EnclosingStateKept ==
    Len(stack) = 1
    => LET own[i \in 0..Len(log)] ==
               IF i = 0
               THEN [l EXCEPT !.State = ZeroState, !.PreviousTitles = EmptyMap,
                              !.PreviousOrigins = EmptyMap]
               ELSE IF log[i].depth # 1 THEN own[i - 1]
               ELSE ProcessLineAt(own[i - 1], log[i].line, log[i].at,
                                  [lookup |-> [err |-> TRUE, title |-> EmptyStr],
                                   order |-> <<>>]).l
           S == own[Len(log)].State
       IN /\ l.State.Title = S.Title
          /\ l.State.URL = S.URL
          /\ l.State.OpenOptions = S.OpenOptions
          /\ l.State.AnonymousURLNeedsClosing = S.AnonymousURLNeedsClosing
          /\ l.State.URLOrigin = S.URLOrigin

\* C35: ProcessFile called on a file from which no file that includes itself is
\* reached comes to its return, and never asks for a file beyond the depth at which
\* files fail to open; called on a file from which a file that includes itself is
\* reached it never returns without an error, and nests its calls up to that depth
\* unless an error ends it before.
C35_ReturnsUnlessCycle ==
    /\ (stack # <<>> /\ ~IncludesItself(stack[1].filePath, l.IncludeFileDirectory))
          ~> (stack = <<>>)
    /\ [](stack # <<>> /\ ~IncludesItself(stack[1].filePath, l.IncludeFileDirectory)
             => ~(Len(stack) >= MaxDepth /\ Top.pending))
    /\ [](result.status = "ok" /\ log # <<>>
             => ~IncludesItself(log[1].at.file, l.IncludeFileDirectory))
    /\ (stack # <<>> /\ IncludesItself(stack[1].filePath, l.IncludeFileDirectory))
          ~> (Len(stack) = MaxDepth \/ result.status = "error")

C35_IncludedTwiceAndReturned ==
    /\ result.status = "ok"
    /\ log[1].at.file = <<"conf", "c.txt">>
    /\ Cardinality({i \in DOMAIN log : log[i].depth = 2}) >= 2

\* C36: a URL line of one of the three forms (label and URL; label, any of -Refresh,
\* -Redirect, -Append -Encoded in this order, name and URL; label, -Form=<method>,
\* -RewriteHost or not, name and URL) stores its last word as the url and returns no
\* L3009; every other URL line returns L3009 and stores an empty url.
C36_LastWordOfThreeForms ==
    [][Len(log') = Len(log) + 1
       => LET e == log'[Len(log')]
              w == SelectSeq(e.line, LAMBDA t : t # <<>>)
              low(i) == ToLower(<<w[i]>>)[1]
              n == Len(w)
              \* the words between the label and the name are the qualifiers from
              \* position i on, with the qualifiers -Refresh (1), -Redirect (2) and
              \* -Append -Encoded (3) still allowed from q on
              quals[i \in 2..(n + 1), q \in 1..4] ==
                  IF i >= n - 1 THEN i = n - 1
                  ELSE IF q = 4 THEN FALSE
                  ELSE \/ quals[i, q + 1]
                       \/ q = 1 /\ low(i) = W("-refresh") /\ quals[i + 1, 2]
                       \/ q = 2 /\ low(i) = W("-redirect") /\ quals[i + 1, 3]
                       \/ /\ q = 3 /\ i + 1 < n - 1
                          /\ low(i) = W("-append") /\ low(i + 1) = W("-encoded")
                          /\ quals[i + 2, 4]
              form1 == n = 2
              form2 == n >= 3 /\ quals[2, 1]
              form3 == /\ n \in {4, 5}
                       /\ Len(w[2]) = 2 /\ low(2)[1] = "-form="
                       /\ n = 5 => low(3) = W("-rewritehost")
          IN e.kind = "directive" /\ e.directive = "URL"
             => IF form1 \/ form2 \/ form3
                THEN /\ l'.State.URL = <<w[n]>>
                     /\ WithCode(m', "L3009") = <<>>
                ELSE /\ l'.State.URL = EmptyStr
                     /\ Len(WithCode(m', "L3009")) = 1]_vars

C36_FormWithRewriteHost ==
    /\ log # <<>>
    /\ Len(log[Len(log)].line) = 5
    /\ log[Len(log)].line[3] = W("-RewriteHost")
    /\ l.State.URL = <<<<"https://", "b.com">>>>

\* C37: for each of the switches Whitespace, DirectiveCase, HTTPS and Origins, and
\* for every line processed, the call made with the switch off leaves the Linter that
\* the call made with the switch on leaves (State and both maps; only the switch
\* differs) and returns the diagnostics of that call, in order, without those of the
\* switch's code: L5002, L5001, L3007, L2005.
C37_SwitchesOnlyAddDiagnostics ==
    [][Len(log') = Len(log) + 1
       => LET e == log'[Len(log')]
              code == [Whitespace |-> "L5002", DirectiveCase |-> "L5001",
                       HTTPS |-> "L3007", Origins |-> "L2005"]
          IN \A switch \in DOMAIN code : \A oracle \in Oracles(l, e.line) :
                LET on == ProcessLineAt([l EXCEPT ![switch] = TRUE], e.line, e.at, oracle)
                    off == ProcessLineAt([l EXCEPT ![switch] = FALSE], e.line, e.at, oracle)
                IN /\ off.l = [on.l EXCEPT ![switch] = FALSE]
                   /\ off.m = SelectSeq(on.m, LAMBDA d : d.code # code[switch])
                   /\ l' = (IF l[switch] THEN on.l ELSE off.l)
                   /\ m' = (IF l[switch] THEN on.m ELSE off.m)]_vars

\* C37 witness: with the switches on, a URL line over http returned L3007 and its
\* origin is the pending URL origin of the stanza.
C37_InsecureURLRecorded ==
    /\ log # <<>>
    /\ l.HTTPS
    /\ IsDirective(Last, "URL")
    /\ WithCode(m, "L3007") # <<>>
    /\ l.State.URLOrigin = <<<<"http://", "a.com">>>>

\* C38: the diagnostics a ProcessLineAt call returns, and their order, are fixed by
\* the Linter and the line: whatever order the range over the pattern map takes, the
\* call returns what it returned in this run.
C38_SameDiagnosticsEveryRun ==
    [][Len(log') = Len(log) + 1
       => LET e == log'[Len(log')]
          IN \A oracle \in Oracles(l, e.line) :
                ProcessLineAt(l, e.line, e.at, oracle).m = m']_vars

\* C39: whatever the Linter holds when a line is about to be read, with no
\* continuation segment stored, a line made of a key of LabelToDirective, a space and
\* a value is classified as the directive of that key, and returns neither L9001 nor
\* L3008.
C39_EveryKeyRecognised ==
    (stack # <<>> /\ l.State.PreviousMultilineSegments = EmptyStr)
    => \A key \in DOMAIN LabelToDirective :
          LET line == key \o <<W("x")>>
          IN \A oracle \in Oracles(l, line) :
                LET r == ProcessLineAt(l, line, At(Top.filePath, Top.lineNum + 1), oracle)
                IN /\ r.kind = "directive"
                   /\ r.directive = LabelToDirective[key]
                   /\ WithCode(r.m, "L9001") = <<>>
                   /\ WithCode(r.m, "L3008") = <<>>

\* C40: at a stanza boundary L4005 is returned if and only if the stanza contained at
\* least one AddUserHeader directive and the most recent one had a non-empty payload.
C40_AddUserHeaderFence ==
    (log # <<>> /\ Last.kind = "boundary")
    => LET a == LastDirective(StanzaBefore(Len(log)), "AddUserHeader")
       IN (WithCode(m, "L4005") # <<>>) <=> (a # 0 /\ log[a].value # EmptyStr)
=============================================================================
